---- MODULE Spec2Model ----
(***************************************************************************)
(* simpleagent: the turn orchestrator (agent.go), the permission gate of   *)
(* the tool registry (tools.go), the event pumps of the four adapters, the  *)
(* background-process supervisor with its ring buffers (tool_exec.go) and   *)
(* the configuration layers (config), as one state machine.                *)
(*                                                                         *)
(* Spec is the agent with the OpenAI and Bedrock streams.  PumpSpec is one  *)
(* prompt run against each of the four adapters, PumpLiveSpec the same with *)
(* fair scheduling.  SupSpec is the supervisor with the turn machinery that *)
(* cancels or ends a turn.  RingSpec is one ring buffer under Write,        *)
(* ReadUnread and ReadAll.  ConfigSpec is main building its configuration,  *)
(* StartupSpec the agent started by --new or --edit.  OrderSpec is one      *)
(* prompt against the OpenAI adapter with one more backend event.  LockSpec *)
(* is the supervisor with one step per lock operation and blocking call,    *)
(* LockLiveSpec the same with fair scheduling.                              *)
(*                                                                         *)
(* Strings of the program are strings, += is \o.  A nil pointer is <<>>    *)
(* and a non-nil pointer is a one-element sequence holding the pointee.    *)
(***************************************************************************)
EXTENDS Naturals, Integers, Sequences, FiniteSets, TLC

\* ---------------------------------------------------------------- bounds
\* Backend-native events the backends deliver in one execution, over all streams.
MaxEvents == 2
\* Streams opened (SendStream calls that succeed) in one execution.
MaxCalls == 2
\* SendStream calls that fail at construction in one execution.
MaxFailures == 1
\* Supervisor handlers invoked in one execution.
MaxSupOps == 3
\* Capacity of a ring buffer (bufSize, 64 KiB in toolStartProcess).
RingSize == 3
\* Bytes of one Write call, and ring buffer operations in one execution.
MaxWriteLen == 2
MaxRingOps == 6
\* Write calls of one copying goroutine in one execution.
MaxCopies == 1
\* Capacity of the chunk channel (make(chan StreamChunk, 64) in every adapter),
\* scaled down so that a pump meets a full channel within MaxEvents.
ChanCap == 1

\* ------------------------------------------------------------- constants
\* toolKillProcess: for i := 0; i < 30; i++
KillPolls == 30

\* ------------------------------------------------------------ data model
ModePlan == "PLAN"
ModeAction == "ACTION"

\* The strings Execute returns for a blocked call.
ConfigDenied == "blocked: tool denied by config"
PlanDenied == "blocked: not allowed in plan mode"

\* r.defs after registerAll, as tool names in registration order (the two
\* file tools that stand for registerFSTools, then registerExecTools).
Defs == <<"read_file", "write_file", "bash", "start_process", "write_stdin",
          "read_output", "kill_process", "list_processes">>

\* r.handlers (its keys) and r.writeTools: the tools registered, and those of
\* them registered with isWrite = true.
RegisteredTools == {Defs[i] : i \in 1..Len(Defs)}
WriteTools == {"write_file", "bash", "start_process", "write_stdin", "kill_process"}

\* The tool names the backends of Spec put into tool calls.
CalledTools == {"read_file", "write_file"}

\* Tool-call ids a backend may send, and the indices it may number calls with.
BackendIDs == {"", "t1"}
Indices == 0..(MaxEvents - 1)

\* types.go: Message
Message(role, content, calls, id) ==
    [Role |-> role, Content |-> content, ToolCalls |-> calls, ToolCallID |-> id]

\* types.go: ToolCall (Args is the accumulated argument bytes)
ToolCall(id, name, args) == [ID |-> id, Name |-> name, Args |-> args]

\* types.go: ToolCallDelta
ToolCallDelta(index, id, name, args) ==
    [Index |-> index, ID |-> id, Name |-> name, Args |-> args]

\* types.go: Usage
Usage(in, out) == [InputTokens |-> in, OutputTokens |-> out]

\* types.go: StreamChunk; ToolCallDelta and Usage are pointers.
StreamChunk(text, delta, done, err, usage) ==
    [Text |-> text, ToolCallDelta |-> delta, Done |-> done, Err |-> err, Usage |-> usage]

TextChunk(t) == StreamChunk(t, <<>>, FALSE, FALSE, <<>>)
DeltaChunk(d) == StreamChunk("", <<d>>, FALSE, FALSE, <<>>)
DoneChunk(u) == StreamChunk("", <<>>, TRUE, FALSE, u)
ErrChunk == StreamChunk("", <<>>, FALSE, TRUE, <<>>)

\* The usage reports a backend may deliver with the end of a stream.
UsageReports == {<<>>, <<Usage(10, 5)>>}

\* The tool-call deltas a backend may deliver for one index that open the
\* call (id, name).
StartDeltas ==
    {ToolCallDelta(i, id, n, "") : i \in Indices, id \in BackendIDs, n \in CalledTools}

\* Faulty variant of SynthID: the index is not used.
SynthID_Zero(i) == "call_0"

\* fmt.Sprintf("call_%d", i)
SynthID(i) == "call_" \o ToString(i)

VARIABLES
    \* Agent / Session
    messages,      \* a.session.Messages
    mode,          \* a.mode
    totalUsage,    \* a.totalUsage
    toolsCfg,      \* the ToolsConfig NewAgent passes to NewToolRegistry
    deniedTools,   \* a.tools.deniedTools
    provider,      \* a.provider.Name()
    \* control
    entry,         \* how main starts the agent: "RunLoop" (no inline prompt),
                   \* "RunOnce" (inline prompt) or "NewEdit" (--new / --edit)
    pc,            \* "input" | "send" | "consume" | "exec" | "append" | "exit"
    inCompact,     \* the stream being consumed belongs to compactSession
    nCalls,        \* streams opened so far
    nFails,        \* SendStream calls that failed at construction so far
    \* the stream of the current provider call
    ch,            \* buffered chunks of the channel
    chClosed,      \* close(ch) has run
    ctxCancelled,  \* ctx.Err() != nil
    left,          \* backend-native events the backends may still deliver
    pending,       \* chunks the pump has still to send for the event it handles
    currentBlockIndex, \* Bedrock pump local
    currentTool,   \* Bedrock pump local: currentTool != nil
    inputTokens,   \* Anthropic pump local
    outputTokens,  \* Anthropic pump local
    toolCallIndex, \* Gemini pump local
    geminiUsage,   \* Gemini pump local: usage
    sh,            \* what the backend delivered and the pump emitted on this stream
    \* consumeStream locals
    content,       \* msg.Content
    toolCalls,     \* map[int]*ToolCall
    usage,         \* *Usage
    seen,          \* history: the chunks the range loop has received, in order
    \* runAgentLoop locals
    assistantMsg,  \* <<>> until consumeStream returned, then <<msg>>
    toolIdx,       \* position in assistantMsg.ToolCalls of the call in dispatch
    result,        \* result of Execute for that call
    \* history (not read by any action's guard)
    sawDone,       \* a chunk with Done was consumed from the current stream
    errInRun,      \* a chunk with Err was consumed in this run of runAgentLoop
    failedPending, \* SendStream failed and no user message was appended since
    arrival,       \* indices of the current stream in order of first arrival
    handlerRan,    \* positions of assistantMsg.ToolCalls whose handler ran
    handlerErr,    \* positions of assistantMsg.ToolCalls whose handler returned an error
    execSeen,      \* for each Execute of the current message: Len(messages) then
    usageReceived, \* tokens of every usage report consumed since the session began
    \* the supervisor (tool_exec.go)
    procs,         \* processes.m: id -> ManagedProcess
    kp,            \* the frame of a running toolKillProcess, and its history
    ret,           \* what the last supervisor handler returned
    nOps,          \* supervisor handlers invoked so far
    \* one ring buffer
    rb,            \* the ringBuffer
    rbh,           \* history: what was written, what the last read returned
    \* the configuration main builds
    cs,            \* where main is, what it read from its environment, and cfg
    \* the supervisor, lock by lock
    locks,         \* the holder of processes, and of mu, Stdout.mu, Stderr.mu of each entry
    hd,            \* the frame of the handler that runs, and its history
    bg,            \* per process: where its monitor and its two copying goroutines are
    table          \* the keys of processes.m

vars == <<messages, mode, totalUsage, toolsCfg, deniedTools, provider, entry, pc, inCompact,
          nCalls, nFails, ch, chClosed, ctxCancelled, left, pending,
          currentBlockIndex, currentTool, inputTokens, outputTokens, toolCallIndex,
          geminiUsage, sh, content, toolCalls, usage, seen, assistantMsg, toolIdx, result,
          sawDone, errInRun, failedPending, arrival, handlerRan, handlerErr, execSeen,
          usageReceived, procs, kp, ret, nOps, rb, rbh, cs, locks, hd, bg, table>>

sessionVars == <<messages, totalUsage>>
configVars == <<toolsCfg, deniedTools, provider, entry>>
pumpLocals == <<currentBlockIndex, currentTool, inputTokens, outputTokens, toolCallIndex,
                geminiUsage>>
streamVars == <<ch, chClosed, ctxCancelled, left, pending, pumpLocals, sh>>
consumeVars == <<content, toolCalls, usage, seen, sawDone, arrival>>
dispatchVars == <<assistantMsg, toolIdx, result, handlerRan, handlerErr, execSeen>>
agentVars == <<sessionVars, mode, configVars, pc, inCompact, nCalls, nFails, streamVars,
               consumeVars, dispatchVars, errInRun, failedPending, usageReceived>>
supVars == <<procs, kp, ret, nOps>>
ringVars == <<rb, rbh>>
lockVars == <<locks, hd, bg, table>>

\* The text fragment and the argument fragment a backend may send with its
\* next event: every event of an execution carries fragments of its own, so
\* that the order of the fragments shows in what is built from them.
Ordinal == ((MaxEvents - left) % 4) + 1
Texts == {<<"a", "b", "c", "d">>[Ordinal]}
ArgFragments == {<<"x", "y", "z", "w">>[Ordinal]}

\* The tool-call deltas a backend may deliver for one index that carry an
\* argument fragment.
ArgDeltas == {ToolCallDelta(i, "", "", a) : i \in Indices, a \in ArgFragments}


\* -------------------------------------------------------- pure functions

\* Faulty variant of ApplyDelta: an argument fragment is put in front of the
\* bytes of its index.
ApplyDelta_Prepends(tcs, d) ==
    LET tc == IF d.Index \in DOMAIN tcs THEN tcs[d.Index] ELSE ToolCall("", "", "")
        new == ToolCall(IF d.ID # "" THEN d.ID ELSE tc.ID,
                        IF d.Name # "" THEN d.Name ELSE tc.Name,
                        IF d.Args # "" THEN d.Args \o tc.Args ELSE tc.Args)
    IN  [j \in (DOMAIN tcs) \cup {d.Index} |-> IF j = d.Index THEN new ELSE tcs[j]]

\* consumeStream, the ToolCallDelta branch of the loop body: the map after
\* delta d was applied.
ApplyDelta(tcs, d) ==
    LET tc == IF d.Index \in DOMAIN tcs THEN tcs[d.Index] ELSE ToolCall("", "", "")
        new == ToolCall(IF d.ID # "" THEN d.ID ELSE tc.ID,
                        IF d.Name # "" THEN d.Name ELSE tc.Name,
                        IF d.Args # "" THEN tc.Args \o d.Args ELSE tc.Args)
    IN  [j \in (DOMAIN tcs) \cup {d.Index} |-> IF j = d.Index THEN new ELSE tcs[j]]

\* consumeStream, the collecting loop from position i on:
\* for ; i < len(toolCalls); i++ { if tc, ok := toolCalls[i]; ok {...} }
RECURSIVE CollectFrom(_, _)
CollectFrom(tcs, i) ==
    IF i >= Cardinality(DOMAIN tcs) THEN <<>>
    ELSE IF i \in DOMAIN tcs
         THEN <<ToolCall(IF tcs[i].ID = "" THEN SynthID(i) ELSE tcs[i].ID,
                         tcs[i].Name, tcs[i].Args)>> \o CollectFrom(tcs, i + 1)
         ELSE CollectFrom(tcs, i + 1)

\* Faulty variant of CollectToolCalls: the loop starts at 1 instead of 0.
CollectToolCalls_FromOne(tcs) == CollectFrom(tcs, 1)

\* consumeStream: msg.ToolCalls as collected after the loop over the channel.
CollectToolCalls(tcs) == CollectFrom(tcs, 0)

\* The elements of sequence q.
Range(q) == {q[i] : i \in 1..Len(q)}

\* ToolsConfig{Deny, Allow}
ToolsConfig(deny, allow) == [Deny |-> deny, Allow |-> allow]

\* Faulty variant of NewToolRegistry: the allow list is ignored.
NewToolRegistry_IgnoresAllow(cfg) == Range(cfg.Deny)

\* NewToolRegistry(toolsCfg): the deniedTools of the registry it returns.
NewToolRegistry(cfg) ==
    Range(cfg.Deny)
        \cup (IF Len(cfg.Allow) > 0
              THEN {Defs[i] : i \in {j \in 1..Len(Defs) : Defs[j] \notin Range(cfg.Allow)}}
              ELSE {})

\* ToolRegistry.Definitions() of a registry with the given deniedTools.
Definitions(denied) ==
    IF Cardinality(denied) = 0 THEN Defs
    ELSE SelectSeq(Defs, LAMBDA n : n \notin denied)

\* The values a tool handler may return: (result, err).
HandlerReturns == {<<"ok", "">>, <<"", "failed">>}

\* Faulty variant of Execute: the Plan-mode check is missing.
Execute_NoPlanGate(name, m, denied, h) ==
    IF name \in denied
    THEN [result |-> ConfigDenied, err |-> "", ran |-> FALSE]
    ELSE IF name \notin RegisteredTools
    THEN [result |-> "", err |-> "", ran |-> FALSE]
    ELSE [result |-> h[1], err |-> h[2], ran |-> TRUE]

\* ToolRegistry.Execute(name, args, mode) with the registry's deniedTools;
\* h is what the handler returns if it is invoked.  ran tells whether it was.
Execute(name, m, denied, h) ==
    IF name \in denied
    THEN [result |-> ConfigDenied, err |-> "", ran |-> FALSE]
    ELSE IF m = ModePlan /\ name \in WriteTools
    THEN [result |-> PlanDenied, err |-> "", ran |-> FALSE]
    ELSE IF name \notin RegisteredTools
    THEN [result |-> "", err |-> "", ran |-> FALSE]
    ELSE [result |-> h[1], err |-> h[2], ran |-> TRUE]

\* Faulty variant of ResultText: the handler's error is dropped.
ResultText_DropsError(r) == r.result

\* runAgentLoop: result, err := Execute(...); if err != nil { result =
\* fmt.Sprintf("error: %v", err) }
ResultText(r) == IF r.err # "" THEN "error: " \o r.err ELSE r.result

\* Faulty variant of ToolResultMessage: the call's name is stored as ToolCallID.
ToolResultMessage_NameAsID(tc, res) == Message("tool", res, <<>>, tc.Name)

\* runAgentLoop: the tool-role message appended for call tc.
ToolResultMessage(tc, res) == Message("tool", res, <<>>, tc.ID)

\* Faulty variant of HasToolCalls: > 1 instead of > 0.
HasToolCalls_MoreThanOne(msg) == Len(msg.ToolCalls) > 1

\* runAgentLoop: if len(assistantMsg.ToolCalls) > 0
HasToolCalls(msg) == Len(msg.ToolCalls) > 0

\* Faulty variant of MoreCalls: the loop stops one call early.
MoreCalls_SkipsLast(k, msg) == k + 1 < Len(msg.ToolCalls)

\* runAgentLoop: the range loop over assistantMsg.ToolCalls has a call after
\* position k.
MoreCalls(k, msg) == k < Len(msg.ToolCalls)

\* Faulty variant of AppendMessage: the new message is put in front.
AppendMessage_InFront(msgs, m) == <<m>> \o msgs

\* runAgentLoop: a.session.Messages = append(a.session.Messages, m)
AppendMessage(msgs, m) == Append(msgs, m)

\* findToolName(msgs, toolCallID): the name of the first tool call with that
\* id, searching the messages from the first on; "" if there is none.
findToolName(msgs, toolCallID) ==
    LET hits == {h \in UNION {{<<i, k>> : k \in 1..Len(msgs[i].ToolCalls)} : i \in 1..Len(msgs)} :
                    msgs[h[1]].ToolCalls[h[2]].ID = toolCallID}
    IN  IF hits = {} THEN ""
        ELSE LET first == CHOOSE h \in hits :
                              \A g \in hits : h[1] < g[1] \/ (h[1] = g[1] /\ h[2] <= g[2])
             IN  msgs[first[1]].ToolCalls[first[2]].Name

\* convertToGeminiContents(msgs): one content per message.  A user message
\* becomes a text part, an assistant message its text and one function call
\* per tool call, a tool message a function response under role "user".
convertToGeminiContents(msgs) ==
    [i \in 1..Len(msgs) |->
        LET msg == msgs[i] IN
        IF msg.Role = "user"
        THEN [Role |-> "user", Text |-> msg.Content, FunctionCalls |-> <<>>,
              FunctionResponse |-> <<>>]
        ELSE IF msg.Role = "assistant"
        THEN [Role |-> "model", Text |-> msg.Content,
              FunctionCalls |-> [k \in 1..Len(msg.ToolCalls) |->
                                    [Name |-> msg.ToolCalls[k].Name,
                                     Args |-> msg.ToolCalls[k].Args,
                                     ID |-> msg.ToolCalls[k].ID]],
              FunctionResponse |-> <<>>]
        ELSE [Role |-> "user", Text |-> "", FunctionCalls |-> <<>>,
              FunctionResponse |-> <<[Name |-> findToolName(msgs, msg.ToolCallID),
                                      ID |-> msg.ToolCallID,
                                      Response |-> msg.Content]>>]]

\* Where runAgentLoop returns to: RunLoop's for loop, or RunOnce's caller.
Return == IF entry = "RunOnce" THEN "exit" ELSE "input"

\* ----------------------------------------------------------- ring buffer

\* The bytes a process may write, and the zero byte of a fresh buffer.
Bytes == {"a", "b"}
NUL == "."

\* The byte slices of length n, and those a Write call may pass.
RECURSIVE Slices(_)
Slices(n) ==
    IF n = 0 THEN {<<>>}
    ELSE {<<>>} \cup {<<b>> \o t : b \in Bytes, t \in Slices(n - 1)}

\* string(bytes)
RECURSIVE String(_)
String(bytes) == IF bytes = <<>> THEN "" ELSE Head(bytes) \o String(Tail(bytes))

\* newRingBuffer(size)
newRingBuffer(size) ==
    [buf |-> [i \in 1..size |-> NUL], size |-> size, pos |-> 0, full |-> FALSE, unread |-> 0]

\* ringBuffer.Write, the loop over the bytes of p (buf is indexed from 1 here).
RECURSIVE WriteBytes(_, _)
WriteBytes(r, p) ==
    IF p = <<>> THEN r
    ELSE LET pos1 == (r.pos + 1) % r.size
         IN  WriteBytes([r EXCEPT !.buf[r.pos + 1] = Head(p),
                                  !.pos = pos1,
                                  !.full = (r.full \/ pos1 = 0)],
                        Tail(p))

\* ringBuffer.Write(p): the buffer afterwards.
Write(r, p) == WriteBytes([r EXCEPT !.unread = r.unread + Len(p)], p)

\* Faulty variant of Avail: the wrap of the buffer is ignored.
Avail_IgnoresFull(r) == r.pos

\* ringBuffer.ReadUnread: the bytes actually available in the buffer.
Avail(r) == IF r.full THEN r.size ELSE r.pos

\* Faulty variant of ReadUnread: the watermark is not reset.
ReadUnread_KeepsWatermark(r) ==
    IF r.unread = 0 THEN [rb |-> r, out |-> ""]
    ELSE LET avail == Avail(r)
             want == IF r.unread > avail THEN avail ELSE r.unread
             start0 == r.pos - want
             start == IF start0 < 0 THEN start0 + r.size ELSE start0
         IN  [rb |-> r,
              out |-> String([i \in 1..want |-> r.buf[((start + i - 1) % r.size) + 1]])]

\* ringBuffer.ReadUnread: the buffer afterwards and the string returned.
ReadUnread(r) ==
    IF r.unread = 0 THEN [rb |-> r, out |-> ""]
    ELSE LET avail == Avail(r)
             want == IF r.unread > avail THEN avail ELSE r.unread
             start0 == r.pos - want
             start == IF start0 < 0 THEN start0 + r.size ELSE start0
         IN  [rb |-> [r EXCEPT !.unread = 0],
              out |-> String([i \in 1..want |-> r.buf[((start + i - 1) % r.size) + 1]])]

\* ringBuffer.ReadAll: the buffer afterwards and the string returned.
ReadAll(r) ==
    IF ~r.full /\ r.pos = 0 THEN [rb |-> r, out |-> ""]
    ELSE LET avail == IF r.full THEN r.size ELSE r.pos
             start == IF r.full THEN r.pos ELSE 0
         IN  [rb |-> [r EXCEPT !.unread = 0],
              out |-> String([i \in 1..avail |-> r.buf[((start + i - 1) % r.size) + 1]])]

\* The history of a fresh ring buffer: bytes written since the last
\* ReadUnread, bytes that had been written before it, what the last read
\* returned, the last operation, whether ReadAll ran since the last ReadUnread
\* (allSince) or before the last one (allBefore), and operations so far.
\* fits tells that only Write and ReadUnread ran and that no ReadUnread
\* found more bytes than the capacity written since the one before; while it
\* holds, all is every byte written up to the last ReadUnread and got the
\* results of all ReadUnread calls, one after the other.
NoRingHistory ==
    [written |-> <<>>, drained |-> <<>>, out |-> "", op |-> "new",
     allSince |-> FALSE, allBefore |-> FALSE, ops |-> 0,
     fits |-> TRUE, all |-> <<>>, got |-> ""]

\* ------------------------------------------------------------ supervisor

\* Ids of managed processes (uuid prefixes), and an id no process ever gets.
ProcIDs == {"p1"}
UnknownID == "zz"

\* What cmd.Wait() may return: nil ("") or an error.
WaitErrs == {"", "exit status 1"}

\* Lines the model may write to a process (as byte slices).
StdinTexts == {<<"y">>, <<"y", "\n">>}

SIGTERM == "SIGTERM"
SIGKILL == "SIGKILL"

\* Faulty variant of StartedWithContext: the command is bound to the context.
StartedWithContext_Bound == TRUE

\* toolStartProcess creates the command with exec.Command, not with
\* exec.CommandContext: the process is bound to no context.
StartedWithContext == FALSE

\* toolStartProcess: the ManagedProcess of a process that has just started.
\* exited and waitErr are the OS side (cmd.Wait has something to return),
\* signals the signals sent to its group; writes counts the writes of the
\* completion fields and sawCancel tells that a cancel() happened while it ran.
ManagedProcess ==
    [Done |-> FALSE, ExitErr |-> "", Stdin |-> <<>>,
     Stdout |-> newRingBuffer(RingSize), Stderr |-> newRingBuffer(RingSize),
     exited |-> FALSE, waitErr |-> "", signals |-> {}, ctxBound |-> StartedWithContext,
     writes |-> 0, sawCancel |-> FALSE]

\* The table with entry id set to mp.
WithEntry(ps, id, mp) ==
    [i \in (DOMAIN ps) \cup {id} |-> IF i = id THEN mp ELSE ps[i]]

\* cancel() of a turn's context: the exec package kills a command that was
\* started with that context; any other process is left alone.
AfterContextCancel(ps) ==
    [i \in DOMAIN ps |->
        IF ps[i].exited THEN ps[i]
        ELSE IF ps[i].ctxBound
        THEN [ps[i] EXCEPT !.exited = TRUE, !.waitErr = "signal: killed", !.sawCancel = TRUE]
        ELSE [ps[i] EXCEPT !.sawCancel = TRUE]]

\* Faulty variant of MonitorWrite: the exit result is not recorded.
MonitorWrite_FlagOnly(mp) == [mp EXCEPT !.Done = TRUE, !.writes = mp.writes + 1]

\* toolStartProcess, the monitor goroutine after cmd.Wait() returned:
\* mp.Done = true; mp.ExitErr = exitErr, under mp.mu.
MonitorWrite(mp) ==
    [mp EXCEPT !.Done = TRUE, !.ExitErr = mp.waitErr, !.writes = mp.writes + 1]

\* The strings the handlers return.
NotFound(id) == "error: no process with id " \o id
AlreadyExited == "error: process has already exited"
StdinError == "error writing to stdin: write failed"
StdinAck(n, id) == "wrote " \o ToString(n) \o " bytes to process " \o id \o " stdin"
KillAlreadyExited(id) == "process " \o id \o " already exited"
Killed(id) == "killed process " \o id \o " (SIGKILL)"
Terminated(id) == "terminated process " \o id

\* toolWriteStdin: if !strings.HasSuffix(text, "\n") { text += "\n" }
WithNewline(text) ==
    IF Len(text) > 0 /\ text[Len(text)] = "\n" THEN text ELSE Append(text, "\n")

\* Faulty variant of toolWriteStdin: the completion flag is not checked.
toolWriteStdin_NoDoneCheck(ps, id, text, ok) ==
    IF id \notin DOMAIN ps
    THEN [procs |-> ps, text |-> NotFound(id)]
    ELSE LET line == WithNewline(text) IN
         IF ~ok
         THEN [procs |-> ps, text |-> StdinError]
         ELSE [procs |-> [ps EXCEPT ![id].Stdin = Append(ps[id].Stdin, String(line))],
               text |-> StdinAck(Len(line), id)]

\* toolWriteStdin on table ps: the table afterwards and the string returned.
\* ok tells whether io.WriteString succeeds.
toolWriteStdin(ps, id, text, ok) ==
    IF id \notin DOMAIN ps
    THEN [procs |-> ps, text |-> NotFound(id)]
    ELSE IF ps[id].Done
    THEN [procs |-> ps, text |-> AlreadyExited]
    ELSE LET line == WithNewline(text) IN
         IF ~ok
         THEN [procs |-> ps, text |-> StdinError]
         ELSE [procs |-> [ps EXCEPT ![id].Stdin = Append(ps[id].Stdin, String(line))],
               text |-> StdinAck(Len(line), id)]

\* toolReadOutput: the text built from the two drained strings and the
\* completion fields.
OutputText(stdout, stderr, done, exitErr) ==
    LET s1 == stdout
        s2 == IF stderr # ""
              THEN (IF s1 # "" THEN s1 \o "\n" ELSE s1) \o "STDERR:\n" \o stderr
              ELSE s1
        s3 == IF done
              THEN (IF s2 # "" THEN s2 \o "\n" ELSE s2)
                   \o (IF exitErr # "" THEN "[process exited: " \o exitErr \o "]"
                       ELSE "[process exited: 0]")
              ELSE s2
    IN  IF s3 = "" THEN "(no new output)" ELSE s3

\* toolReadOutput on table ps: the table afterwards (both buffers drained) and
\* the string returned.
toolReadOutput(ps, id) ==
    IF id \notin DOMAIN ps
    THEN [procs |-> ps, text |-> NotFound(id)]
    ELSE LET stdout == ReadUnread(ps[id].Stdout)
             stderr == ReadUnread(ps[id].Stderr)
         IN  [procs |-> [ps EXCEPT ![id].Stdout = stdout.rb, ![id].Stderr = stderr.rb],
              text |-> OutputText(stdout.out, stderr.out, ps[id].Done, ps[id].ExitErr)]

\* toolListProcesses: the status column of an entry.
Status(mp) ==
    IF mp.Done
    THEN (IF mp.ExitErr # "" THEN "exited (" \o mp.ExitErr \o ")" ELSE "exited (0)")
    ELSE "running"

\* Faulty variant of SeesDone: the completion flag is not looked at.
SeesDone_Never(mp) == FALSE

\* toolKillProcess before any signal: done := mp.Done under mp.mu; if done,
\* the handler returns.
SeesDone(mp) == mp.Done

\* toolKillProcess: the polling loop runs once more (i < 30 and no break).
PollAgain(i, done) == i < KillPolls /\ ~done

\* Faulty variant of Escalate: the forced kill is sent whatever the polls saw.
Escalate_Always(done) == TRUE

\* toolKillProcess: if !done, the forced kill is sent.
Escalate(done) == ~done

\* The frame of toolKillProcess when no call has run: pc, the id of the call,
\* polls made (i), the loop's done, whether some poll saw the flag set, and the
\* signals the call has sent, in order.
NoKill == [pc |-> "idle", id |-> "", i |-> 0, done |-> FALSE, sawSet |-> FALSE, sigs |-> <<>>]

\* What a handler returned: the tool, the id it was called with, the text, and
\* for list_processes the set of (id, status) lines.
Returned(op, id, text) == [op |-> op, id |-> id, text |-> text, list |-> {}, ran |-> TRUE]

\* What Execute returned for a call whose handler it did not invoke.
Blocked(op, text) == [op |-> op, id |-> "", text |-> text, list |-> {}, ran |-> FALSE]

\* The pump is at the top of its loop: nothing to send.  ret tells that the
\* pump returns (and its deferred close(ch) runs) once the chunks are sent.
NoPending == [chunks |-> <<>>, ret |-> FALSE]

\* A stream on which the backend has delivered nothing and the pump has
\* emitted nothing: whether the backend call failed in transit and the adapter
\* saw it, whether the backend delivered its metadata event, whether a Done or
\* Err chunk was emitted, the Err chunks and usage-carrying chunks emitted, and
\* every chunk the pump has sent, in order.
NoStream ==
    [failed |-> FALSE, metadata |-> FALSE, ended |-> FALSE, errs |-> 0, usages |-> 0,
     sent |-> <<>>]

\* The goroutines that take locks: the one that runs the handlers, and per
\* process its monitor and the two that copy its output.  NoTask holds a lock
\* that is free.
NoTask == ""
Handler == "handler"
MonitorOf(id) == "monitor " \o id
CopierOf(id, s) == s \o " copier " \o id

\* All locks free.
NoLocks ==
    [processes |-> NoTask, mu |-> [id \in ProcIDs |-> NoTask],
     Stdout |-> [id \in ProcIDs |-> NoTask], Stderr |-> [id \in ProcIDs |-> NoTask]]

\* No handler runs: where the handler is, its tool and id, the locals of
\* toolReadOutput (stdout, stderr), of toolKillProcess (polling: the loop has
\* begun, i) and of toolListProcesses (entries still to visit, lines built),
\* and the ids for which a read_output has returned the terminal status.
Idle ==
    [pc |-> "idle", op |-> "", id |-> "", stdout |-> "", stderr |-> "",
     polling |-> FALSE, i |-> 0, todo |-> {}, list |-> {}, reported |-> {}]

\* The goroutines of a process that has just started: the monitor in
\* cmd.Wait(), the copying goroutines reading their pipes (p is what a
\* goroutine has read and not yet written, n its Write calls so far).
NewTasks ==
    [monitor |-> "cmd.Wait",
     Stdout |-> [pc |-> "read", p |-> <<>>, n |-> 0],
     Stderr |-> [pc |-> "read", p |-> <<>>, n |-> 0]]

\* What a copying goroutine may read from its pipe in one read.
CopyChunks == {<<"a">>}

\* ---------------------------------------------------------- configuration

\* The two providers whose settings are followed, and the hardcoded values.
ProviderNames == {"anthropic", "ollama"}

\* ProviderConfig{APIKey, Model, URL}
ProviderConfig(key, model, url) == [APIKey |-> key, Model |-> model, URL |-> url]

\* DefaultConfig()
DefaultConfig ==
    [Provider |-> "anthropic",
     Providers |-> [n \in ProviderNames |->
                       IF n = "anthropic"
                       THEN ProviderConfig("", "claude-sonnet-4-20250514", "")
                       ELSE ProviderConfig("", "qwen2.5-coder:14b", "http://localhost:11434")]]

\* The field-by-field merge of new into existing (set in migrateOldConfig, and
\* the loop body of mergeConfigFile): a non-empty field overrides.
MergeProvider(existing, new) ==
    ProviderConfig(IF new.APIKey # "" THEN new.APIKey ELSE existing.APIKey,
                   IF new.Model # "" THEN new.Model ELSE existing.Model,
                   IF new.URL # "" THEN new.URL ELSE existing.URL)

\* mergeConfigFile(path, &cfg): file is <<>> if the file cannot be read, else
\* <<raw>> with raw.Provider and raw.Providers.
mergeConfigFile(file, cfg) ==
    IF file = <<>> THEN cfg
    ELSE LET raw == file[1] IN
         [Provider |-> IF raw.Provider # "" THEN raw.Provider ELSE cfg.Provider,
          Providers |-> [n \in ProviderNames |->
                            IF n \in DOMAIN raw.Providers
                            THEN MergeProvider(cfg.Providers[n], raw.Providers[n])
                            ELSE cfg.Providers[n]]]

\* applyEnvOverrides(&cfg): ANTHROPIC_API_KEY and OLLAMA_HOST.
applyEnvOverrides(env, cfg) ==
    [cfg EXCEPT !.Providers =
        [n \in ProviderNames |->
            IF n = "anthropic" /\ env.ANTHROPIC_API_KEY # ""
            THEN [cfg.Providers[n] EXCEPT !.APIKey = env.ANTHROPIC_API_KEY]
            ELSE IF n = "ollama" /\ env.OLLAMA_HOST # ""
            THEN [cfg.Providers[n] EXCEPT !.URL = env.OLLAMA_HOST]
            ELSE cfg.Providers[n]]]

\* LoadConfig(): defaults, the user-wide file, the project file, the environment.
LoadConfig(user, project, env) ==
    applyEnvOverrides(env, mergeConfigFile(project, mergeConfigFile(user, DefaultConfig)))

\* Config.ApplyAgentFile(af): af is <<>> for nil.
ApplyAgentFile(cfg, af) ==
    IF af = <<>> THEN cfg
    ELSE LET p == IF af[1].Provider # "" THEN af[1].Provider ELSE cfg.Provider
             old == cfg.Providers[p]
         IN  [Provider |-> p,
              Providers |-> [cfg.Providers EXCEPT ![p] =
                  ProviderConfig(old.APIKey,
                                 IF af[1].Model # "" THEN af[1].Model ELSE old.Model,
                                 IF af[1].URL # "" THEN af[1].URL ELSE old.URL)]]

\* main: the --provider and --model flags.
ApplyFlags(cfg, flags) ==
    LET p == IF flags.provider # "" THEN flags.provider ELSE cfg.Provider
    IN  [Provider |-> p,
         Providers |-> [cfg.Providers EXCEPT ![p].Model =
             IF flags.model # "" THEN flags.model ELSE @]]

\* What main may find in its environment: the two config files, the
\* environment variables, the .agent file and the flags.
ConfigFiles(tag) ==
    {<<>>,
     <<[Provider |-> "ollama", Providers |-> <<>>]>>,
     <<[Provider |-> "", Providers |-> [n \in {"ollama"} |-> ProviderConfig("", "", tag)]]>>}
Environments ==
    [ANTHROPIC_API_KEY : {"", "env-key"}, OLLAMA_HOST : {"", "env-url"}]
AgentFiles ==
    {<<>>} \cup {<<[Provider |-> p, Model |-> "", URL |-> u]>> :
                     p \in {"", "ollama"}, u \in {"", "agent-url"}}
Flags == [provider : {"", "ollama"}, model : {"", "flag-model"}]

\* main has not loaded its configuration.
NotLoaded == [pc |-> "start", in |-> <<>>, cfg |-> DefaultConfig]

\* -------------------------------------------------------------- initial

\* The state after main has built the agent: the provider, the caller of the
\* agent loop and the tool configuration are drawn from the given sets, the backends
\* may deliver the given number of content events, no process is managed and
\* the ring buffer is fresh.
Start(providers, entries, configs, events) ==
    /\ toolsCfg \in configs
    /\ deniedTools = NewToolRegistry(toolsCfg)
    /\ provider \in providers
    /\ entry \in entries
    /\ totalUsage = Usage(0, 0)
    /\ IF entry = "RunLoop"
       THEN mode = ModePlan /\ messages = <<>> /\ pc = "input"
       ELSE IF entry = "NewEdit"
       THEN mode = ModeAction /\ messages = <<Message("user", "hi", <<>>, "")>> /\ pc = "input"
       ELSE mode = ModeAction /\ messages = <<Message("user", "hi", <<>>, "")>> /\ pc = "send"
    /\ inCompact = FALSE
    /\ nCalls = 0 /\ nFails = 0
    /\ ch = <<>> /\ chClosed = TRUE /\ ctxCancelled = FALSE
    /\ left = events /\ pending = NoPending /\ sh = NoStream
    /\ currentBlockIndex = 0 /\ currentTool = FALSE
    /\ inputTokens = 0 /\ outputTokens = 0 /\ toolCallIndex = 0 /\ geminiUsage = <<>>
    /\ content = "" /\ toolCalls = <<>> /\ usage = <<>> /\ seen = <<>>
    /\ assistantMsg = <<>> /\ toolIdx = 0 /\ result = ""
    /\ sawDone = FALSE /\ errInRun = FALSE /\ failedPending = FALSE
    /\ arrival = <<>> /\ handlerRan = {} /\ handlerErr = {} /\ execSeen = <<>>
    /\ usageReceived = 0
    /\ procs = <<>> /\ kp = NoKill /\ ret = Returned("", "", "") /\ nOps = 0
    /\ rb = newRingBuffer(RingSize) /\ rbh = NoRingHistory
    /\ cs = NotLoaded
    /\ locks = NoLocks /\ hd = Idle /\ bg = <<>> /\ table = {}

\* The tool configurations of Spec: no list, a deny list, an allow list.
NoLists == ToolsConfig(<<>>, <<>>)
ToolConfigs ==
    {NoLists, ToolsConfig(<<"write_file">>, <<>>), ToolsConfig(<<>>, <<"read_file">>)}

Init == Start({"openai", "bedrock"}, {"RunLoop", "RunOnce"}, ToolConfigs, MaxEvents)


\* ------------------------------------------------------ provider streams

\* The locals of a pump goroutine that has not run yet.
FreshLocals ==
    /\ currentBlockIndex' = 0 /\ currentTool' = FALSE
    /\ inputTokens' = 0 /\ outputTokens' = 0
    /\ toolCallIndex' = 0 /\ geminiUsage' = <<>>

\* The state of a freshly opened stream and of a consumeStream that starts on it.
OpenStream ==
    /\ ch' = <<>> /\ chClosed' = FALSE /\ ctxCancelled' = FALSE
    /\ pending' = NoPending /\ sh' = NoStream /\ FreshLocals /\ UNCHANGED left
    /\ content' = "" /\ toolCalls' = <<>> /\ usage' = <<>> /\ seen' = <<>>
    /\ sawDone' = FALSE /\ arrival' = <<>>

\* The locals of runAgentLoop at the top of an iteration.
ResetDispatch ==
    /\ assistantMsg' = <<>> /\ toolIdx' = 0 /\ result' = ""
    /\ handlerRan' = {} /\ handlerErr' = {} /\ execSeen' = <<>>

\* BedrockProvider.SendStream returns (nil, err) when ConverseStream fails; the
\* other adapters open the backend call inside the pump and never return an error.
MayFailAtConstruction == provider = "bedrock"

\* runAgentLoop, top of the loop: SendStream, and the return on its error.
SendStream ==
    /\ pc = "send"
    /\ ResetDispatch
    /\ \/ /\ MayFailAtConstruction /\ nFails < MaxFailures
          /\ nFails' = nFails + 1 /\ UNCHANGED nCalls
          /\ failedPending' = TRUE
          /\ errInRun' = FALSE
          /\ pc' = Return
          /\ procs' = AfterContextCancel(procs)
          /\ UNCHANGED <<streamVars, consumeVars, inCompact>>
       \/ /\ nCalls < MaxCalls
          /\ nCalls' = nCalls + 1 /\ UNCHANGED nFails
          /\ OpenStream
          /\ inCompact' = FALSE
          /\ pc' = "consume"
          /\ UNCHANGED <<failedPending, errInRun, procs, lockVars>>
    /\ UNCHANGED <<sessionVars, mode, configVars, usageReceived, kp, ret, nOps, ringVars, cs, lockVars>>

\* The signal goroutine of runAgentLoop: Ctrl+C while the stream is consumed
\* cancels the turn's context.  compactSession uses context.Background().
CtrlC ==
    /\ pc = "consume" /\ ~inCompact /\ ~ctxCancelled
    /\ ctxCancelled' = TRUE
    /\ procs' = AfterContextCancel(procs)
    /\ UNCHANGED <<sessionVars, mode, configVars, pc, inCompact, nCalls, nFails, ch, chClosed,
                   left, pending, pumpLocals, sh, consumeVars, dispatchVars,
                   errInRun, failedPending, usageReceived, kp, ret, nOps, ringVars, cs, lockVars>>

pumpFrame ==
    UNCHANGED <<sessionVars, mode, configVars, pc, inCompact, nCalls, nFails, ctxCancelled,
                consumeVars, dispatchVars, errInRun, failedPending,
                usageReceived, supVars, ringVars, cs, lockVars>>

\* The pump handles a backend event at the top of its loop: nothing is left to
\* send from the event before.
AtLoopTop == ~chClosed /\ pending = NoPending

\* return in the pump: the deferred close(ch) runs; the goroutine's locals die.
PumpReturn == chClosed' = TRUE /\ pending' = NoPending /\ FreshLocals

\* The pump has chunks to send and goes on with its loop afterwards.
Emit(chunks) == pending' = [chunks |-> chunks, ret |-> FALSE] /\ chClosed' = FALSE

\* The pump has chunks to send and returns afterwards.
EmitAndReturn(chunks) == pending' = [chunks |-> chunks, ret |-> TRUE] /\ chClosed' = FALSE

\* Faulty variant of OnFailure: the error is reported twice.
OnFailure_Twice == <<ErrChunk, ErrChunk>>

\* What every adapter sends when its backend call fails in transit:
\* ch <- StreamChunk{Err: err}, and nothing else.
OnFailure == <<ErrChunk>>

\* ch <- chunk in a pump: the send blocks while the channel is full.  After the
\* last chunk of a returning pump, close(ch).
PumpSend ==
    /\ ~chClosed /\ pending.chunks # <<>>
    /\ Len(ch) < ChanCap
    /\ LET c == Head(pending.chunks)
           rest == Tail(pending.chunks)
       IN  /\ ch' = Append(ch, c)
           /\ sh' = [sh EXCEPT !.ended = (sh.ended \/ c.Done \/ c.Err),
                               !.errs = sh.errs + (IF c.Err THEN 1 ELSE 0),
                               !.usages = sh.usages + (IF c.Usage # <<>> THEN 1 ELSE 0),
                               !.sent = Append(sh.sent, c)]
           /\ IF rest = <<>> /\ pending.ret
              THEN PumpReturn
              ELSE /\ pending' = [pending EXCEPT !.chunks = rest]
                   /\ chClosed' = FALSE
                   /\ UNCHANGED pumpLocals
    /\ UNCHANGED left
    /\ pumpFrame

\* OpenAIProvider.SendStream, the pump: one iteration of for stream.Next().
OpenAINext ==
    /\ provider = "openai" /\ AtLoopTop /\ left > 0
    /\ left' = left - 1
    /\ IF ctxCancelled
       THEN PumpReturn
       ELSE /\ \E c \in {TextChunk(t) : t \in Texts}
                        \cup {DeltaChunk(d) : d \in StartDeltas \cup ArgDeltas} :
                   Emit(<<c>>)
            /\ UNCHANGED pumpLocals
    /\ UNCHANGED <<ch, sh>>
    /\ pumpFrame

\* OpenAIProvider.SendStream, the pump after stream.Next() returned false: the
\* Err chunk and return, or the Done chunk, then the deferred close(ch).
OpenAIEnd ==
    /\ provider = "openai" /\ AtLoopTop
    /\ \/ EmitAndReturn(OnFailure) /\ sh' = [sh EXCEPT !.failed = TRUE]
       \/ \E u \in UsageReports : EmitAndReturn(<<DoneChunk(u)>>) /\ UNCHANGED sh
    /\ UNCHANGED <<ch, left, pumpLocals>>
    /\ pumpFrame

\* BedrockProvider.SendStream, the pump: one iteration of the loop over
\* output.GetStream().Events().  The backend delivers its metadata event once.
BedrockEvent ==
    /\ provider = "bedrock" /\ AtLoopTop /\ left > 0
    /\ IF ctxCancelled
       THEN PumpReturn /\ UNCHANGED <<left, sh>>
       ELSE /\ left' = left - 1
            /\ UNCHANGED <<inputTokens, outputTokens, toolCallIndex, geminiUsage>>
            /\ \/ \* ContentBlockStart with a ToolUse start
                  \E id \in BackendIDs, n \in CalledTools :
                    /\ Emit(<<DeltaChunk(ToolCallDelta(currentBlockIndex, id, n, ""))>>)
                    /\ currentTool' = TRUE
                    /\ UNCHANGED <<currentBlockIndex, sh>>
               \/ \* ContentBlockDelta with text
                  \E t \in Texts :
                    /\ Emit(<<TextChunk(t)>>)
                    /\ UNCHANGED <<currentBlockIndex, currentTool, sh>>
               \/ \* ContentBlockDelta with tool input
                  \E a \in ArgFragments :
                    /\ Emit(IF currentTool
                            THEN <<DeltaChunk(ToolCallDelta(currentBlockIndex, "", "", a))>>
                            ELSE <<>>)
                    /\ UNCHANGED <<currentBlockIndex, currentTool, sh>>
               \/ \* ContentBlockStop
                    /\ currentTool' = FALSE
                    /\ currentBlockIndex' = currentBlockIndex + 1
                    /\ UNCHANGED <<pending, chClosed, sh>>
               \/ \* Metadata
                  \E u \in UsageReports :
                    /\ ~sh.metadata
                    /\ Emit(<<DoneChunk(u)>>)
                    /\ sh' = [sh EXCEPT !.metadata = TRUE]
                    /\ UNCHANGED <<currentBlockIndex, currentTool>>
    /\ UNCHANGED ch
    /\ pumpFrame

\* BedrockProvider.SendStream, the pump after the event loop: the Err chunk if
\* the stream failed, then the deferred close(ch).
BedrockEnd ==
    /\ provider = "bedrock" /\ AtLoopTop
    /\ \/ /\ EmitAndReturn(OnFailure) /\ sh' = [sh EXCEPT !.failed = TRUE]
          /\ UNCHANGED pumpLocals
       \/ PumpReturn /\ UNCHANGED sh
    /\ UNCHANGED <<ch, left>>
    /\ pumpFrame

\* The token counts a backend may report.
InputCounts == {10}
OutputCounts == {5}

\* Faulty variant of OnMessageStart: the input count is reported at once, in a
\* usage event of its own.
OnMessageStart_Reports(n) == <<StreamChunk("", <<>>, FALSE, FALSE, <<Usage(n, 0)>>)>>

\* AnthropicProvider.SendStream, OnMessageStart: what the callback sends after
\* it stored the input count n (nothing).
OnMessageStart(n) == <<>>

\* AnthropicProvider.SendStream, the pump inside CreateMessagesStream: one
\* callback of the stream.
AnthropicEvent ==
    /\ provider = "anthropic" /\ AtLoopTop /\ left > 0
    /\ left' = left - 1
    /\ UNCHANGED <<currentBlockIndex, currentTool, toolCallIndex, geminiUsage>>
    /\ \/ \* OnMessageStart
          \E n \in InputCounts :
            /\ inputTokens' = n
            /\ Emit(OnMessageStart(n))
            /\ UNCHANGED outputTokens
       \/ \* OnContentBlockStart with a tool_use block (no check of ctx)
          \E i \in Indices, id \in BackendIDs, n \in CalledTools :
            /\ Emit(<<DeltaChunk(ToolCallDelta(i, id, n, ""))>>)
            /\ UNCHANGED <<inputTokens, outputTokens>>
       \/ \* OnContentBlockDelta: text or input_json, dropped once ctx is cancelled
          \E c \in {TextChunk(t) : t \in Texts} \cup {DeltaChunk(d) : d \in ArgDeltas} :
            /\ Emit(IF ctxCancelled THEN <<>> ELSE <<c>>)
            /\ UNCHANGED <<inputTokens, outputTokens>>
       \/ \* OnMessageDelta
          \E n \in OutputCounts :
            /\ outputTokens' = n
            /\ Emit(<<>>)
            /\ UNCHANGED inputTokens
    /\ UNCHANGED <<ch, sh>>
    /\ pumpFrame

\* AnthropicProvider.SendStream after CreateMessagesStream returned: the Err
\* chunk and return, or the Done chunk with both counts, then close(ch).
AnthropicEnd ==
    /\ provider = "anthropic" /\ AtLoopTop
    /\ \/ EmitAndReturn(OnFailure) /\ sh' = [sh EXCEPT !.failed = TRUE]
       \/ /\ EmitAndReturn(<<DoneChunk(<<Usage(inputTokens, outputTokens)>>)>>)
          /\ UNCHANGED sh
    /\ UNCHANGED <<ch, left, pumpLocals>>
    /\ pumpFrame

\* GeminiProvider.SendStream, the pump: one iteration of the loop over
\* GenerateContentStream that carries a result (one part, and perhaps the
\* usage metadata).
GeminiResult ==
    /\ provider = "gemini" /\ AtLoopTop /\ left > 0
    /\ left' = left - 1
    /\ IF ctxCancelled
       THEN PumpReturn
       ELSE /\ \/ \E t \in Texts :
                    Emit(<<TextChunk(t)>>) /\ UNCHANGED toolCallIndex
               \/ \E id \in BackendIDs, n \in CalledTools, a \in ArgFragments :
                    /\ Emit(<<DeltaChunk(ToolCallDelta(toolCallIndex, id, n, a))>>)
                    /\ toolCallIndex' = toolCallIndex + 1
            /\ \E u \in UsageReports : geminiUsage' = IF u # <<>> THEN u ELSE geminiUsage
            /\ UNCHANGED <<currentBlockIndex, currentTool, inputTokens, outputTokens>>
    /\ UNCHANGED <<ch, sh>>
    /\ pumpFrame

\* GeminiProvider.SendStream, the pump when the iterator ends: with an error
\* (seen after the check of ctx: the Err chunk and return) or normally (the
\* Done chunk with the last usage), then close(ch).
GeminiEnd ==
    /\ provider = "gemini" /\ AtLoopTop
    /\ \/ IF ctxCancelled
          THEN PumpReturn /\ UNCHANGED sh
          ELSE /\ EmitAndReturn(OnFailure) /\ sh' = [sh EXCEPT !.failed = TRUE]
               /\ UNCHANGED pumpLocals
       \/ EmitAndReturn(<<DoneChunk(geminiUsage)>>) /\ UNCHANGED <<sh, pumpLocals>>
    /\ UNCHANGED <<ch, left>>
    /\ pumpFrame


\* ---------------------------------------------------------- consumeStream

\* Faulty variant of Breaks: the loop also stops at the Done chunk.
Breaks_AtDone(chunk) == chunk.Err \/ chunk.Done

\* consumeStream: if chunk.Err != nil { ...; break }, the only way out of the
\* loop before the channel is closed.
Breaks(chunk) == chunk.Err

\* consumeStream: one iteration of for chunk := range ch.
ConsumeChunk ==
    /\ pc = "consume" /\ ch # <<>>
    /\ LET chunk == Head(ch) IN
       /\ ch' = Tail(ch)
       /\ seen' = Append(seen, chunk)
       /\ IF Breaks(chunk)
          THEN /\ pc' = "collect"
               /\ errInRun' = (errInRun \/ ~inCompact)
               /\ UNCHANGED <<content, toolCalls, usage, sawDone, arrival, usageReceived>>
          ELSE /\ pc' = "consume"
               /\ content' = IF chunk.Text # "" THEN content \o chunk.Text ELSE content
               /\ toolCalls' = IF chunk.ToolCallDelta # <<>>
                               THEN ApplyDelta(toolCalls, chunk.ToolCallDelta[1])
                               ELSE toolCalls
               /\ arrival' = IF chunk.ToolCallDelta # <<>>
                                /\ chunk.ToolCallDelta[1].Index \notin DOMAIN toolCalls
                             THEN Append(arrival, chunk.ToolCallDelta[1].Index)
                             ELSE arrival
               /\ usage' = IF chunk.Usage # <<>> THEN chunk.Usage ELSE usage
               /\ usageReceived' =
                      IF chunk.Usage # <<>>
                      THEN usageReceived + chunk.Usage[1].InputTokens + chunk.Usage[1].OutputTokens
                      ELSE usageReceived
               /\ sawDone' = (sawDone \/ chunk.Done)
               /\ UNCHANGED errInRun
    /\ UNCHANGED <<sessionVars, mode, configVars, inCompact, nCalls, nFails, chClosed, ctxCancelled,
                   left, pending, pumpLocals, sh, dispatchVars, failedPending,
                   supVars, ringVars, cs, lockVars>>

\* consumeStream: the range loop ends because the channel is closed and drained.
ConsumeClosed ==
    /\ pc = "consume" /\ ch = <<>> /\ chClosed
    /\ pc' = "collect"
    /\ UNCHANGED <<sessionVars, mode, configVars, inCompact, nCalls, nFails, streamVars,
                   consumeVars, dispatchVars, errInRun, failedPending,
                   usageReceived, supVars, ringVars, cs, lockVars>>

\* The locals of consumeStream are gone once its caller has returned.
DropConsumeLocals ==
    /\ content' = "" /\ toolCalls' = <<>> /\ usage' = <<>> /\ seen' = <<>>
    /\ sawDone' = FALSE /\ arrival' = <<>>

\* consumeStream: the message it returns.
FinishedMessage == Message("assistant", content, CollectToolCalls(toolCalls), "")

\* runAgentLoop after consumeStream returned: cancel(), the usage totals, the
\* append of the assistant message, and the branch on its tool calls (with the
\* session.Save() and return of the plain-response path).
FinishStream ==
    /\ pc = "collect" /\ ~inCompact
    /\ LET msg == FinishedMessage IN
       /\ ctxCancelled' = TRUE
       /\ procs' = AfterContextCancel(procs)
       /\ totalUsage' = IF usage # <<>>
                        THEN Usage(totalUsage.InputTokens + usage[1].InputTokens,
                                   totalUsage.OutputTokens + usage[1].OutputTokens)
                        ELSE totalUsage
       /\ messages' = AppendMessage(messages, msg)
       /\ assistantMsg' = <<msg>>
       /\ IF HasToolCalls(msg)
          THEN pc' = "exec" /\ toolIdx' = 1 /\ UNCHANGED <<errInRun, consumeVars>>
          ELSE pc' = Return /\ toolIdx' = 0 /\ errInRun' = FALSE /\ DropConsumeLocals
    /\ UNCHANGED <<mode, configVars, inCompact, nCalls, nFails, ch, chClosed, left,
                   pending, pumpLocals, sh, result, handlerRan, handlerErr,
                   execSeen, failedPending, usageReceived, kp, ret, nOps, ringVars, cs, lockVars>>

\* ------------------------------------------------------------- dispatch

\* runAgentLoop, the tool loop: a.tools.Execute for the call at toolIdx and the
\* err -> "error: ..." conversion.
ExecTool ==
    /\ pc = "exec"
    /\ \E h \in HandlerReturns :
         LET tc == assistantMsg[1].ToolCalls[toolIdx]
             r  == Execute(tc.Name, mode, deniedTools, h)
         IN  /\ result' = ResultText(r)
             /\ handlerRan' = IF r.ran THEN handlerRan \cup {toolIdx} ELSE handlerRan
             /\ handlerErr' = IF r.ran /\ r.err # "" THEN handlerErr \cup {toolIdx}
                              ELSE handlerErr
    /\ execSeen' = Append(execSeen, Len(messages))
    /\ pc' = "append"
    /\ UNCHANGED <<sessionVars, mode, configVars, inCompact, nCalls, nFails, streamVars,
                   consumeVars, assistantMsg, toolIdx, errInRun, failedPending,
                   usageReceived, supVars, ringVars, cs, lockVars>>

\* runAgentLoop, the tool loop: the append of the tool-role message, then the
\* next call, or session.Save() and continue after the last one.
AppendToolResult ==
    /\ pc = "append"
    /\ messages' = AppendMessage(messages,
                                 ToolResultMessage(assistantMsg[1].ToolCalls[toolIdx], result))
    /\ IF MoreCalls(toolIdx, assistantMsg[1])
       THEN pc' = "exec" /\ toolIdx' = toolIdx + 1
       ELSE pc' = "send" /\ toolIdx' = toolIdx
    /\ UNCHANGED <<totalUsage, mode, configVars, inCompact, nCalls, nFails, streamVars,
                   consumeVars, assistantMsg, result, handlerRan, handlerErr, execSeen,
                   errInRun, failedPending, usageReceived, supVars, ringVars, cs, lockVars>>

\* ------------------------------------------------------ RunLoop and input

LastIsTool == Len(messages) > 0 /\ messages[Len(messages)].Role = "tool"

\* RunLoop: the last message is a tool result, so runAgentLoop runs without input.
RunLoopPending ==
    /\ pc = "input" /\ LastIsTool
    /\ pc' = "send"
    /\ UNCHANGED <<sessionVars, mode, configVars, inCompact, nCalls, nFails, streamVars,
                   consumeVars, dispatchVars, errInRun, failedPending,
                   usageReceived, supVars, ringVars, cs, lockVars>>

\* RunLoop reads a line: no tool result is pending and no handler is running.
AtPrompt == pc = "input" /\ ~LastIsTool /\ kp.pc = "idle"

\* RunLoop: a line of input that is no slash command.
UserMessage ==
    /\ AtPrompt
    /\ messages' = Append(messages, Message("user", "hi", <<>>, ""))
    /\ failedPending' = FALSE
    /\ pc' = "send"
    /\ ResetDispatch
    /\ UNCHANGED <<totalUsage, mode, configVars, inCompact, nCalls, nFails, streamVars,
                   consumeVars, errInRun, usageReceived, supVars, ringVars, cs, lockVars>>

\* Faulty variant of SetMode: the mode is written while a turn runs, too.
SetMode_AnyTime ==
    /\ \E m \in {ModePlan, ModeAction} : m # mode /\ mode' = m
    /\ UNCHANGED <<sessionVars, configVars, pc, inCompact, nCalls, nFails, streamVars,
                   consumeVars, dispatchVars, errInRun, failedPending,
                   usageReceived, supVars, ringVars, cs, lockVars>>

\* handleSlashCommand /plan and /action, and toggleMode (Shift+Tab in readLine).
SetMode ==
    /\ AtPrompt
    /\ \E m \in {ModePlan, ModeAction} : m # mode /\ mode' = m
    /\ UNCHANGED <<sessionVars, configVars, pc, inCompact, nCalls, nFails, streamVars,
                   consumeVars, dispatchVars, errInRun, failedPending,
                   usageReceived, supVars, ringVars, cs, lockVars>>

\* handleSlashCommand /new
NewSession ==
    /\ AtPrompt
    /\ messages # <<>>
    /\ messages' = <<>>
    /\ totalUsage' = Usage(0, 0)
    /\ usageReceived' = 0
    /\ UNCHANGED <<mode, configVars, pc, inCompact, nCalls, nFails, streamVars,
                   consumeVars, dispatchVars, errInRun, failedPending, supVars, ringVars, cs, lockVars>>

CompactPrompt == "Summarize the entire conversation so far"

\* handleSlashCommand /compact: compactSession up to its SendStream.
CompactStart ==
    /\ AtPrompt
    /\ messages' = Append(messages, Message("user", CompactPrompt, <<>>, ""))
    /\ failedPending' = FALSE
    /\ \/ /\ MayFailAtConstruction /\ nFails < MaxFailures
          /\ nFails' = nFails + 1 /\ UNCHANGED nCalls
          /\ UNCHANGED <<streamVars, consumeVars, inCompact, pc>>
       \/ /\ nCalls < MaxCalls
          /\ nCalls' = nCalls + 1 /\ UNCHANGED nFails
          /\ OpenStream
          /\ inCompact' = TRUE
          /\ pc' = "consume"
    /\ ResetDispatch
    /\ UNCHANGED <<totalUsage, mode, configVars, errInRun, usageReceived, supVars, ringVars, cs, lockVars>>

\* compactSession after consumeStream returned: the history is replaced.
CompactFinish ==
    /\ pc = "collect" /\ inCompact
    /\ messages' = <<Message("user", "Previous conversation summary:", <<>>, ""),
                     Message("assistant", FinishedMessage.Content, <<>>, "")>>
    /\ inCompact' = FALSE
    /\ pc' = "input"
    /\ DropConsumeLocals
    /\ UNCHANGED <<totalUsage, mode, configVars, nCalls, nFails, streamVars,
                   dispatchVars, errInRun, failedPending, usageReceived, supVars, ringVars, cs, lockVars>>

\* RunLoop: readLine returns an error (Ctrl+D), or /exit.
Exit ==
    /\ AtPrompt
    /\ pc' = "exit"
    /\ UNCHANGED <<sessionVars, mode, configVars, inCompact, nCalls, nFails, streamVars,
                   consumeVars, dispatchVars, errInRun, failedPending,
                   usageReceived, supVars, ringVars, cs, lockVars>>

Next ==
    \/ SendStream \/ CtrlC
    \/ OpenAINext \/ OpenAIEnd \/ BedrockEvent \/ BedrockEnd \/ PumpSend
    \/ ConsumeChunk \/ ConsumeClosed \/ FinishStream
    \/ ExecTool \/ AppendToolResult
    \/ RunLoopPending \/ UserMessage \/ SetMode \/ NewSession
    \/ CompactStart \/ CompactFinish \/ Exit

Spec == Init /\ [][Next]_vars


\* ------------------------------------------------------ --new and --edit
\* main appends the first message of the builder or editor itself and calls
\* RunLoop.

StartupInit == Start({"openai", "bedrock"}, {"NewEdit"}, {NoLists}, MaxEvents)

StartupSpec == StartupInit /\ [][Next]_vars


\* ------------------------------------------------- the four adapters
\* One prompt (RunOnce) against each adapter: the pump of the provider call
\* with consumeStream as the reader of its channel.

PumpInit == Start({"anthropic", "openai", "gemini", "bedrock"}, {"RunOnce"}, {NoLists}, MaxEvents)

\* A pump handles a backend event or the end of its backend stream.
PumpStep ==
    \/ AnthropicEvent \/ AnthropicEnd \/ OpenAINext \/ OpenAIEnd
    \/ GeminiResult \/ GeminiEnd \/ BedrockEvent \/ BedrockEnd

PumpNext ==
    \/ SendStream \/ CtrlC
    \/ AnthropicEvent \/ AnthropicEnd \/ OpenAINext \/ OpenAIEnd
    \/ GeminiResult \/ GeminiEnd \/ BedrockEvent \/ BedrockEnd \/ PumpSend
    \/ ConsumeChunk \/ ConsumeClosed \/ FinishStream
    \/ ExecTool \/ AppendToolResult

PumpSpec == PumpInit /\ [][PumpNext]_vars

\* One prompt against the OpenAI adapter whose backend has one more event to
\* deliver, so that the argument fragments of two tool calls interleave.
OrderInit == Start({"openai"}, {"RunOnce"}, {NoLists}, MaxEvents + 1)

OrderNext ==
    \/ SendStream \/ CtrlC \/ OpenAINext \/ OpenAIEnd \/ PumpSend
    \/ ConsumeChunk \/ ConsumeClosed \/ FinishStream
    \/ ExecTool \/ AppendToolResult

OrderSpec == OrderInit /\ [][OrderNext]_vars

\* The pump goroutine and the goroutine of consumeStream are scheduled when
\* they can run, and a backend call whose context is cancelled returns: the
\* backend stream then ends or yields its next event.
PumpLiveSpec ==
    /\ PumpInit /\ [][PumpNext]_vars
    /\ WF_vars(PumpSend)
    /\ WF_vars(ConsumeChunk)
    /\ WF_vars(ctxCancelled /\ PumpStep)


\* ------------------------------------------------------- the supervisor
\* Execute calls the handlers below from the tool loop; here the call that
\* names them is left open.  One handler runs at a time (the loop executes one
\* tool at a time); the OS processes and their monitors run beside it.

\* Faulty variant of Gate: the call is checked as if the mode were Action.
Gate_AsAction(name) == Execute(name, ModeAction, deniedTools, <<"", "">>)

\* a.tools.Execute(tc.Name, tc.Args, a.mode) for a call of tool name, up to
\* the handler: whether the handler is invoked, and the text if it is not.
Gate(name) == Execute(name, mode, deniedTools, <<"", "">>)

\* toolBash: the command runs to its end (or its timeout) inside the handler.
Bash ==
    /\ kp.pc = "idle" /\ nOps < MaxSupOps
    /\ nOps' = nOps + 1
    /\ IF ~Gate("bash").ran
       THEN ret' = Blocked("bash", Gate("bash").result)
       ELSE \E out \in {"", "out"} :
              ret' = Returned("bash", "", IF out = "" THEN "(no output)" ELSE out)
    /\ UNCHANGED <<procs, kp, agentVars, ringVars, cs, lockVars>>

\* toolStartProcess
StartProcess ==
    /\ kp.pc = "idle" /\ nOps < MaxSupOps
    /\ nOps' = nOps + 1
    /\ IF ~Gate("start_process").ran
       THEN ret' = Blocked("start_process", Gate("start_process").result) /\ UNCHANGED procs
       ELSE \/ \* cmd.Start() fails
               /\ ret' = Returned("start_process", "", "error starting process: failed")
               /\ UNCHANGED procs
            \/ \E id \in ProcIDs \ DOMAIN procs :
                 /\ procs' = WithEntry(procs, id, ManagedProcess)
                 /\ ret' = Returned("start_process", id, "started process " \o id)
    /\ UNCHANGED <<kp, agentVars, ringVars, cs, lockVars>>

\* toolWriteStdin
WriteStdin ==
    /\ kp.pc = "idle" /\ nOps < MaxSupOps
    /\ nOps' = nOps + 1
    /\ IF ~Gate("write_stdin").ran
       THEN ret' = Blocked("write_stdin", Gate("write_stdin").result) /\ UNCHANGED procs
       ELSE \E id \in ProcIDs \cup {UnknownID}, text \in StdinTexts, ok \in BOOLEAN :
              LET r == toolWriteStdin(procs, id, text, ok)
              IN  procs' = r.procs /\ ret' = Returned("write_stdin", id, r.text)
    /\ UNCHANGED <<kp, agentVars, ringVars, cs, lockVars>>

\* toolReadOutput
ReadOutput ==
    /\ kp.pc = "idle" /\ nOps < MaxSupOps
    /\ nOps' = nOps + 1
    /\ IF ~Gate("read_output").ran
       THEN ret' = Blocked("read_output", Gate("read_output").result) /\ UNCHANGED procs
       ELSE \E id \in ProcIDs \cup {UnknownID} :
              LET r == toolReadOutput(procs, id)
              IN  procs' = r.procs /\ ret' = Returned("read_output", id, r.text)
    /\ UNCHANGED <<kp, agentVars, ringVars, cs, lockVars>>

\* toolListProcesses
ListProcesses ==
    /\ kp.pc = "idle" /\ nOps < MaxSupOps
    /\ nOps' = nOps + 1
    /\ IF ~Gate("list_processes").ran
       THEN ret' = Blocked("list_processes", Gate("list_processes").result)
       ELSE ret' = [op |-> "list_processes", id |-> "",
                    text |-> IF DOMAIN procs = {} THEN "(no managed processes)" ELSE "",
                    list |-> {<<id, Status(procs[id])>> : id \in DOMAIN procs},
                    ran |-> TRUE]
    /\ UNCHANGED <<procs, kp, agentVars, ringVars, cs, lockVars>>

\* toolKillProcess up to the polling loop: the lookup, the check of the
\* completion flag, and SIGTERM to the process group.
KillStart ==
    /\ kp.pc = "idle" /\ nOps < MaxSupOps
    /\ nOps' = nOps + 1
    /\ IF ~Gate("kill_process").ran
       THEN /\ ret' = Blocked("kill_process", Gate("kill_process").result)
            /\ UNCHANGED <<procs, kp>>
       ELSE \E id \in ProcIDs \cup {UnknownID} :
         IF id \notin DOMAIN procs
         THEN /\ ret' = Returned("kill_process", id, NotFound(id))
              /\ kp' = [NoKill EXCEPT !.id = id]
              /\ UNCHANGED procs
         ELSE IF SeesDone(procs[id])
         THEN /\ ret' = Returned("kill_process", id, KillAlreadyExited(id))
              /\ kp' = [NoKill EXCEPT !.id = id]
              /\ UNCHANGED procs
         ELSE /\ procs' = [procs EXCEPT ![id].signals = procs[id].signals \cup {SIGTERM}]
              /\ kp' = [pc |-> "poll", id |-> id, i |-> 0, done |-> FALSE,
                        sawSet |-> FALSE, sigs |-> <<SIGTERM>>]
              /\ ret' = Returned("kill_process", id, "")
    /\ UNCHANGED <<agentVars, ringVars, cs, lockVars>>

\* toolKillProcess, one iteration of the polling loop: sleep, then read mp.Done.
KillPoll ==
    /\ kp.pc = "poll" /\ PollAgain(kp.i, kp.done)
    /\ kp' = [kp EXCEPT !.i = kp.i + 1, !.done = procs[kp.id].Done,
                        !.sawSet = (kp.sawSet \/ procs[kp.id].Done)]
    /\ UNCHANGED <<procs, ret, nOps, agentVars, ringVars, cs, lockVars>>

\* toolKillProcess after the polling loop: SIGKILL and "killed", or "terminated".
KillFinish ==
    /\ kp.pc = "poll" /\ ~PollAgain(kp.i, kp.done)
    /\ IF Escalate(kp.done)
       THEN /\ procs' = [procs EXCEPT ![kp.id].signals = procs[kp.id].signals \cup {SIGKILL}]
            /\ kp' = [kp EXCEPT !.pc = "idle", !.sigs = Append(kp.sigs, SIGKILL)]
            /\ ret' = Returned("kill_process", kp.id, Killed(kp.id))
       ELSE /\ kp' = [kp EXCEPT !.pc = "idle"]
            /\ ret' = Returned("kill_process", kp.id, Terminated(kp.id))
            /\ UNCHANGED procs
    /\ UNCHANGED <<nOps, agentVars, ringVars, cs, lockVars>>

\* The OS process of an entry exits, by itself or on a signal: cmd.Wait() has
\* a result to return.
OSExit ==
    /\ \E id \in DOMAIN procs, err \in WaitErrs :
         /\ ~procs[id].exited
         /\ procs' = [procs EXCEPT ![id].exited = TRUE, ![id].waitErr = err]
    /\ UNCHANGED <<kp, ret, nOps, agentVars, ringVars, cs, lockVars>>

\* toolStartProcess, the monitor goroutine of an entry: cmd.Wait() returns and
\* the completion fields are written under mp.mu.
Monitor ==
    /\ \E id \in DOMAIN procs :
         /\ procs[id].exited /\ procs[id].writes = 0
         /\ procs' = [procs EXCEPT ![id] = MonitorWrite(procs[id])]
    /\ UNCHANGED <<kp, ret, nOps, agentVars, ringVars, cs, lockVars>>

\* The supervisor beside an agent whose backend delivers no content event:
\* its turns are cancelled, fail at construction, or end with an error or with
\* the end of the stream.
SupInit == Start({"bedrock"}, {"RunLoop"}, {NoLists}, 0)

SupNext ==
    \/ UserMessage \/ SetMode \/ SendStream \/ CtrlC \/ BedrockEnd \/ PumpSend
    \/ ConsumeChunk \/ ConsumeClosed \/ FinishStream
    \/ Bash \/ StartProcess \/ WriteStdin \/ ReadOutput \/ ListProcesses
    \/ KillStart \/ KillPoll \/ KillFinish
    \/ OSExit \/ Monitor

SupSpec == SupInit /\ [][SupNext]_vars


\* ------------------------------------------- the supervisor, lock by lock
\* The handlers, the monitor goroutines and the goroutines that copy the
\* output of a process into its ring buffers, one step per Lock(), per
\* critical section (up to its Unlock()) and per blocking call.  Here procs
\* holds the ManagedProcess objects from cmd.Start() on and table the keys of
\* processes.m.

\* Faulty variant of UnlocksTable: read_output keeps processes locked.
UnlocksTable_NotInReadOutput(op) == op # "read_output"

\* toolWriteStdin, toolReadOutput, toolKillProcess: processes.Unlock() follows
\* the lookup at once.
UnlocksTable(op) == TRUE

\* Faulty variant of UnlocksEntry: write_stdin keeps mp.mu locked.
UnlocksEntry_NotInWriteStdin(op) == op # "write_stdin"

\* Every handler: mp.mu.Unlock() follows the read of mp.Done at once.
UnlocksEntry(op) == TRUE

\* Lock m, one of processes, mp.mu, mp.Stdout.mu, mp.Stderr.mu (id is "" for
\* processes), is free; the locks after task t took it or gave it back.
Holder(m, id) == IF m = "processes" THEN locks.processes ELSE locks[m][id]
Locked(m, id, t) ==
    IF m = "processes" THEN [locks EXCEPT !.processes = t]
    ELSE [locks EXCEPT ![m][id] = t]
Unlocked(lk, m, id) ==
    IF m = "processes" THEN [lk EXCEPT !.processes = NoTask]
    ELSE [lk EXCEPT ![m][id] = NoTask]

\* The handler returns r; its frame is gone, the history stays.
Finish(r, reported) == hd' = [Idle EXCEPT !.reported = reported] /\ ret' = r

lockFrame == UNCHANGED <<agentVars, kp, ringVars, cs>>

\* Execute invokes a handler.  toolStartProcess runs up to processes.Lock():
\* cmd.Start() and the go statement of the monitor.
Invoke ==
    /\ hd.pc = "idle" /\ nOps < MaxSupOps
    /\ nOps' = nOps + 1
    /\ \E op \in {"start_process", "write_stdin", "read_output", "kill_process",
                  "list_processes"} :
         /\ Gate(op).ran
         /\ IF op = "start_process"
            THEN \/ /\ Finish(Returned(op, "", "error starting process: failed"), hd.reported)
                    /\ UNCHANGED <<procs, bg>>
                 \/ \E id \in ProcIDs \ DOMAIN procs :
                      /\ procs' = WithEntry(procs, id, ManagedProcess)
                      /\ bg' = WithEntry(bg, id, NewTasks)
                      /\ hd' = [hd EXCEPT !.pc = "processes.Lock", !.op = op, !.id = id]
                      /\ UNCHANGED ret
            ELSE /\ \E id \in (IF op = "list_processes" THEN {""} ELSE ProcIDs \cup {UnknownID}) :
                      hd' = [hd EXCEPT !.pc = "processes.Lock", !.op = op, !.id = id]
                 /\ UNCHANGED <<procs, bg, ret>>
    /\ UNCHANGED <<locks, table>>
    /\ lockFrame

\* processes.Lock() in a handler
LockProcesses ==
    /\ hd.pc = "processes.Lock" /\ Holder("processes", "") = NoTask
    /\ locks' = Locked("processes", "", Handler)
    /\ hd' = [hd EXCEPT !.pc = "in processes"]
    /\ UNCHANGED <<procs, ret, nOps, bg, table>>
    /\ lockFrame

\* A handler under processes: the insert of toolStartProcess, the lookup of
\* the handlers that take an id, the start of the loop of toolListProcesses
\* (which keeps processes locked until it returns).
InProcesses ==
    /\ hd.pc = "in processes"
    /\ IF hd.op = "start_process"
       THEN /\ table' = table \cup {hd.id}
            /\ locks' = Unlocked(locks, "processes", "")
            /\ Finish(Returned(hd.op, hd.id, "started process " \o hd.id), hd.reported)
       ELSE IF hd.op = "list_processes"
       THEN /\ UNCHANGED table
            /\ IF table = {}
               THEN /\ locks' = Unlocked(locks, "processes", "")
                    /\ Finish([Returned(hd.op, "", "(no managed processes)") EXCEPT !.list = {}],
                              hd.reported)
               ELSE /\ \E id \in table :
                         hd' = [hd EXCEPT !.pc = "mu.Lock", !.id = id, !.todo = table \ {id}]
                    /\ UNCHANGED <<locks, ret>>
       ELSE /\ UNCHANGED table
            /\ locks' = IF UnlocksTable(hd.op) THEN Unlocked(locks, "processes", "") ELSE locks
            /\ IF hd.id \notin table
               THEN Finish(Returned(hd.op, hd.id, NotFound(hd.id)), hd.reported)
               ELSE /\ hd' = [hd EXCEPT !.pc = IF hd.op = "read_output" THEN "Stdout.Lock"
                                               ELSE "mu.Lock"]
                    /\ UNCHANGED ret
    /\ UNCHANGED <<procs, nOps, bg>>
    /\ lockFrame

\* rb.mu.Lock() of ReadUnread in toolReadOutput
LockRing ==
    /\ hd.pc \in {"Stdout.Lock", "Stderr.Lock"}
    /\ LET s == IF hd.pc = "Stdout.Lock" THEN "Stdout" ELSE "Stderr" IN
       /\ Holder(s, hd.id) = NoTask
       /\ locks' = Locked(s, hd.id, Handler)
       /\ hd' = [hd EXCEPT !.pc = "in " \o s]
    /\ UNCHANGED <<procs, ret, nOps, bg, table>>
    /\ lockFrame

\* ReadUnread of toolReadOutput under rb.mu, up to its Unlock()
InRing ==
    /\ hd.pc \in {"in Stdout", "in Stderr"}
    /\ LET s == IF hd.pc = "in Stdout" THEN "Stdout" ELSE "Stderr"
           r == ReadUnread(procs[hd.id][s])
       IN  /\ procs' = [procs EXCEPT ![hd.id][s] = r.rb]
           /\ locks' = Unlocked(locks, s, hd.id)
           /\ hd' = IF s = "Stdout"
                    THEN [hd EXCEPT !.pc = "Stderr.Lock", !.stdout = r.out]
                    ELSE [hd EXCEPT !.pc = "mu.Lock", !.stderr = r.out]
    /\ UNCHANGED <<ret, nOps, bg, table>>
    /\ lockFrame

\* mp.mu.Lock() in a handler
LockEntry ==
    /\ hd.pc = "mu.Lock" /\ Holder("mu", hd.id) = NoTask
    /\ locks' = Locked("mu", hd.id, Handler)
    /\ hd' = [hd EXCEPT !.pc = "in mu"]
    /\ UNCHANGED <<procs, ret, nOps, bg, table>>
    /\ lockFrame

\* A handler under mp.mu: the read of mp.Done (and mp.ExitErr), the Unlock()
\* and what the handler does with the value up to its next lock or blocking
\* call.
InEntry ==
    /\ hd.pc = "in mu"
    /\ LET mp == procs[hd.id]
           lk == IF UnlocksEntry(hd.op) THEN Unlocked(locks, "mu", hd.id) ELSE locks
       IN  IF hd.op = "write_stdin"
           THEN /\ locks' = lk
                /\ IF mp.Done
                   THEN Finish(Returned(hd.op, hd.id, AlreadyExited), hd.reported)
                   ELSE hd' = [hd EXCEPT !.pc = "io.WriteString"] /\ UNCHANGED ret
           ELSE IF hd.op = "read_output"
           THEN /\ locks' = lk
                /\ Finish(Returned(hd.op, hd.id,
                                   OutputText(hd.stdout, hd.stderr, mp.Done, mp.ExitErr)),
                          IF mp.Done THEN hd.reported \cup {hd.id} ELSE hd.reported)
           ELSE IF hd.op = "list_processes"
           THEN LET lines == hd.list \cup {<<hd.id, Status(mp)>>} IN
                IF hd.todo = {}
                THEN /\ locks' = Unlocked(lk, "processes", "")
                     /\ Finish([Returned(hd.op, "", "") EXCEPT !.list = lines], hd.reported)
                ELSE /\ locks' = lk
                     /\ \E id \in hd.todo :
                          hd' = [hd EXCEPT !.pc = "mu.Lock", !.id = id,
                                           !.todo = hd.todo \ {id}, !.list = lines]
                     /\ UNCHANGED ret
           ELSE \* kill_process
                /\ locks' = lk
                /\ IF ~hd.polling
                   THEN IF SeesDone(mp)
                        THEN Finish(Returned(hd.op, hd.id, KillAlreadyExited(hd.id)), hd.reported)
                        ELSE hd' = [hd EXCEPT !.pc = "SIGTERM"] /\ UNCHANGED ret
                   ELSE IF PollAgain(hd.i + 1, mp.Done)
                        THEN hd' = [hd EXCEPT !.pc = "sleep", !.i = hd.i + 1] /\ UNCHANGED ret
                        ELSE IF Escalate(mp.Done)
                        THEN hd' = [hd EXCEPT !.pc = "SIGKILL", !.i = hd.i + 1] /\ UNCHANGED ret
                        ELSE Finish(Returned(hd.op, hd.id, Terminated(hd.id)), hd.reported)
    /\ UNCHANGED <<procs, nOps, bg, table>>
    /\ lockFrame

\* toolWriteStdin: io.WriteString(mp.Stdin, text), which may block.
WriteString ==
    /\ hd.pc = "io.WriteString"
    /\ \E text \in StdinTexts, ok \in BOOLEAN :
         LET line == WithNewline(text) IN
         IF ok
         THEN /\ procs' = [procs EXCEPT ![hd.id].Stdin = Append(procs[hd.id].Stdin, String(line))]
              /\ Finish(Returned(hd.op, hd.id, StdinAck(Len(line), hd.id)), hd.reported)
         ELSE /\ UNCHANGED procs
              /\ Finish(Returned(hd.op, hd.id, StdinError), hd.reported)
    /\ UNCHANGED <<nOps, locks, bg, table>>
    /\ lockFrame

\* toolKillProcess: syscall.Kill(-pgid, SIGTERM) before the polls, and
\* syscall.Kill(-pgid, SIGKILL) and the return after them.
SendSignal ==
    /\ hd.pc \in {SIGTERM, SIGKILL}
    /\ procs' = [procs EXCEPT ![hd.id].signals = procs[hd.id].signals \cup {hd.pc}]
    /\ IF hd.pc = SIGTERM
       THEN hd' = [hd EXCEPT !.pc = "sleep", !.polling = TRUE, !.i = 0] /\ UNCHANGED ret
       ELSE Finish(Returned(hd.op, hd.id, Killed(hd.id)), hd.reported)
    /\ UNCHANGED <<nOps, locks, bg, table>>
    /\ lockFrame

\* toolKillProcess: time.Sleep(100 * time.Millisecond) in the polling loop
Sleep ==
    /\ hd.pc = "sleep"
    /\ hd' = [hd EXCEPT !.pc = "mu.Lock"]
    /\ UNCHANGED <<procs, ret, nOps, locks, bg, table>>
    /\ lockFrame

\* A goroutine of os/exec that copies a pipe of the process into cmd.Stdout
\* or cmd.Stderr: the read from the pipe, which blocks until the process has
\* written something or the pipe is at its end.
CopyRead ==
    /\ \E id \in DOMAIN bg, s \in {"Stdout", "Stderr"} :
         /\ bg[id][s].pc = "read"
         /\ \/ \E p \in CopyChunks :
                 /\ bg[id][s].n < MaxCopies
                 /\ bg' = [bg EXCEPT ![id][s] = [pc |-> "rb.mu.Lock", p |-> p, n |-> @.n + 1]]
            \/ /\ procs[id].exited
               /\ bg' = [bg EXCEPT ![id][s].pc = "done"]
    /\ UNCHANGED <<procs, ret, nOps, locks, hd, table>>
    /\ lockFrame

\* ringBuffer.Write called by the copying goroutine: rb.mu.Lock()
CopyLock ==
    /\ \E id \in DOMAIN bg, s \in {"Stdout", "Stderr"} :
         /\ bg[id][s].pc = "rb.mu.Lock" /\ Holder(s, id) = NoTask
         /\ locks' = Locked(s, id, CopierOf(id, s))
         /\ bg' = [bg EXCEPT ![id][s].pc = "in rb.mu"]
    /\ UNCHANGED <<procs, ret, nOps, hd, table>>
    /\ lockFrame

\* ringBuffer.Write under rb.mu, up to its Unlock()
CopyWrite ==
    /\ \E id \in DOMAIN bg, s \in {"Stdout", "Stderr"} :
         /\ bg[id][s].pc = "in rb.mu"
         /\ procs' = [procs EXCEPT ![id][s] = Write(procs[id][s], bg[id][s].p)]
         /\ locks' = Unlocked(locks, s, id)
         /\ bg' = [bg EXCEPT ![id][s].pc = "read", ![id][s].p = <<>>]
    /\ UNCHANGED <<ret, nOps, hd, table>>
    /\ lockFrame

\* The monitor goroutine: cmd.Wait() returns once the process has exited and
\* the copying goroutines are done.
Wait ==
    /\ \E id \in DOMAIN bg :
         /\ bg[id].monitor = "cmd.Wait"
         /\ procs[id].exited /\ bg[id].Stdout.pc = "done" /\ bg[id].Stderr.pc = "done"
         /\ bg' = [bg EXCEPT ![id].monitor = "mu.Lock"]
    /\ UNCHANGED <<procs, ret, nOps, locks, hd, table>>
    /\ lockFrame

\* The monitor goroutine: mp.mu.Lock()
MonitorLock ==
    /\ \E id \in DOMAIN bg :
         /\ bg[id].monitor = "mu.Lock" /\ Holder("mu", id) = NoTask
         /\ locks' = Locked("mu", id, MonitorOf(id))
         /\ bg' = [bg EXCEPT ![id].monitor = "in mu"]
    /\ UNCHANGED <<procs, ret, nOps, hd, table>>
    /\ lockFrame

\* The monitor goroutine under mp.mu: mp.Done = true; mp.ExitErr = exitErr;
\* mp.mu.Unlock()
MonitorStore ==
    /\ \E id \in DOMAIN bg :
         /\ bg[id].monitor = "in mu"
         /\ procs' = [procs EXCEPT ![id] = MonitorWrite(procs[id])]
         /\ locks' = Unlocked(locks, "mu", id)
         /\ bg' = [bg EXCEPT ![id].monitor = "done"]
    /\ UNCHANGED <<ret, nOps, hd, table>>
    /\ lockFrame

\* The handlers run in Action mode (main with an inline prompt).
LockInit == Start({"openai"}, {"RunOnce"}, {NoLists}, 0)

\* A step that takes a lock, runs a critical section or returns from a sleep
\* or a signal: a step no goroutine can be kept from once it can take it.
LockStep ==
    \/ LockProcesses \/ InProcesses \/ LockRing \/ InRing \/ LockEntry \/ InEntry
    \/ SendSignal \/ Sleep \/ CopyLock \/ CopyWrite \/ MonitorLock \/ MonitorStore

LockNext ==
    \/ Invoke \/ LockProcesses \/ InProcesses \/ LockRing \/ InRing \/ LockEntry \/ InEntry
    \/ WriteString \/ SendSignal \/ Sleep
    \/ OSExit \/ CopyRead \/ CopyLock \/ CopyWrite \/ Wait \/ MonitorLock \/ MonitorStore

LockSpec == LockInit /\ [][LockNext]_vars

\* Go schedules every goroutine that can run, and a sync.Mutex that is free
\* is handed to a goroutine that waits for it.  A write to a pipe, the exit of
\* a process and a new call of the model may never come.
LockLiveSpec == LockInit /\ [][LockNext]_vars /\ WF_vars(LockStep)


\* ---------------------------------------------------- one ring buffer

\* ringBuffer.Write(p), p a byte slice the writer chooses.
RingWrite ==
    /\ rbh.ops < MaxRingOps
    /\ \E p \in Slices(MaxWriteLen) :
         /\ rb' = Write(rb, p)
         /\ rbh' = [rbh EXCEPT !.written = rbh.written \o p, !.op = "write",
                               !.ops = rbh.ops + 1]
    /\ UNCHANGED <<agentVars, supVars, cs, lockVars>>

\* ringBuffer.ReadUnread()
RingReadUnread ==
    /\ rbh.ops < MaxRingOps
    /\ rb' = ReadUnread(rb).rb
    /\ LET fits == rbh.fits /\ Len(rbh.written) <= RingSize
       IN  rbh' = [written |-> <<>>, drained |-> rbh.written, out |-> ReadUnread(rb).out,
                   op |-> "unread", allSince |-> FALSE, allBefore |-> rbh.allSince,
                   ops |-> rbh.ops + 1, fits |-> fits,
                   all |-> IF fits THEN rbh.all \o rbh.written ELSE <<>>,
                   got |-> IF fits THEN rbh.got \o ReadUnread(rb).out ELSE ""]
    /\ UNCHANGED <<agentVars, supVars, cs, lockVars>>

\* ringBuffer.ReadAll()
RingReadAll ==
    /\ rbh.ops < MaxRingOps
    /\ rb' = ReadAll(rb).rb
    /\ rbh' = [rbh EXCEPT !.out = ReadAll(rb).out, !.op = "all", !.allSince = TRUE,
                          !.ops = rbh.ops + 1,
                          !.fits = FALSE, !.all = <<>>, !.got = ""]
    /\ UNCHANGED <<agentVars, supVars, cs, lockVars>>

RingInit == Start({"openai"}, {"RunLoop"}, {NoLists}, 0)

RingNext == RingWrite \/ RingReadUnread \/ RingReadAll

RingSpec == RingInit /\ [][RingNext]_vars


\* ------------------------------------------------- configuration layers

\* main: cfg := LoadConfig(), in the environment main finds.
MainLoadConfig ==
    /\ cs.pc = "start"
    /\ \E user \in ConfigFiles("user-url"), project \in ConfigFiles("project-url"),
          env \in Environments, af \in AgentFiles, flags \in Flags :
         cs' = [pc |-> "agentfile",
                in |-> [user |-> user, project |-> project, env |-> env,
                        agentFile |-> af, flags |-> flags],
                cfg |-> LoadConfig(user, project, env)]
    /\ UNCHANGED <<agentVars, supVars, ringVars, lockVars>>

\* main: cfg.ApplyAgentFile(agentFile)
MainApplyAgentFile ==
    /\ cs.pc = "agentfile"
    /\ cs' = [cs EXCEPT !.pc = "flags", !.cfg = ApplyAgentFile(cs.cfg, cs.in.agentFile)]
    /\ UNCHANGED <<agentVars, supVars, ringVars, lockVars>>

\* main: the CLI flag overrides; the configuration is final.
MainApplyFlags ==
    /\ cs.pc = "flags"
    /\ cs' = [cs EXCEPT !.pc = "done", !.cfg = ApplyFlags(cs.cfg, cs.in.flags)]
    /\ UNCHANGED <<agentVars, supVars, ringVars, lockVars>>

ConfigInit == Start({"openai"}, {"RunLoop"}, {NoLists}, 0)

ConfigNext == MainLoadConfig \/ MainApplyAgentFile \/ MainApplyFlags

ConfigSpec == ConfigInit /\ [][ConfigNext]_vars


\* ------------------------------------------------------------ properties

\* SendStream invocations so far, failed or not.
ProviderCalls == nCalls + nFails

\* This step appends a user message to the conversation.
UserMessageAppended ==
    /\ Len(messages') = Len(messages) + 1
    /\ messages'[Len(messages')].Role = "user"

\* runAgentLoop is in, or has just left, the tool loop of assistantMsg.
Dispatching ==
    /\ assistantMsg # <<>>
    /\ Len(assistantMsg[1].ToolCalls) > 0
    /\ pc \in {"exec", "append", "send"}

\* Tool results of assistantMsg appended so far, and where assistantMsg sits.
Appended == IF pc = "send" THEN toolIdx ELSE toolIdx - 1
AsstPos == Len(messages) - Appended

\* The indices of map tcs in ascending order.
RECURSIVE Ascending(_)
Ascending(S) ==
    IF S = {} THEN <<>>
    ELSE LET m == CHOOSE x \in S : \A y \in S : x <= y
         IN  <<m>> \o Ascending(S \ {m})

\* C1: a stream that ended without a Done chunk leads to no tool dispatch:
\* whenever a tool call is executed or its result is appended, a Done chunk
\* was consumed from the stream that produced the call.
C1_NoDispatchWithoutDone == pc \in {"exec", "append"} => sawDone

\* C2: once an Err chunk was consumed in a run of the agent loop, that run
\* issues no further provider call.
C2_StreamErrorAbortsTurn == [][errInRun => ProviderCalls' = ProviderCalls]_vars

\* C3: after SendStream failed at construction, a provider call is issued only
\* by a step that appends a user message first.
C3_NoCallAfterConstructionFailure ==
    [][(failedPending /\ ProviderCalls' # ProviderCalls) => UserMessageAppended]_vars

\* The text the gate gives a mutating tool in Plan mode.
PlanGateText(name) == IF name \in deniedTools THEN ConfigDenied ELSE PlanDenied

\* C4 (as claimed): in Plan mode a call of a mutating tool never runs the
\* handler, and its tool-result message is (tool, plan-denial sentinel, call id).
C4_PlanDenialSentinel ==
    (Dispatching /\ mode = ModePlan) =>
        \A k \in 1..Len(assistantMsg[1].ToolCalls) :
            LET tc == assistantMsg[1].ToolCalls[k] IN
            tc.Name \in WriteTools =>
                /\ k \notin handlerRan
                /\ (pc = "append" /\ k = toolIdx) => result = PlanDenied
                /\ k <= Appended =>
                       messages[AsstPos + k] = Message("tool", PlanDenied, <<>>, tc.ID)

\* C4 (amended): in Plan mode a call of a mutating tool never runs the handler,
\* and its tool-result message is (tool, text, call id) where text is the
\* plan-denial sentinel, or the config-denial text if the tool is also denied
\* by the configuration.
C4_PlanGateAmended ==
    (Dispatching /\ mode = ModePlan) =>
        \A k \in 1..Len(assistantMsg[1].ToolCalls) :
            LET tc == assistantMsg[1].ToolCalls[k] IN
            tc.Name \in WriteTools =>
                /\ k \notin handlerRan
                /\ (pc = "append" /\ k = toolIdx) => result = PlanGateText(tc.Name)
                /\ k <= Appended =>
                       messages[AsstPos + k] =
                           Message("tool", PlanGateText(tc.Name), <<>>, tc.ID)

\* A mutating tool that the configuration allows was called in Plan mode and
\* its denial was appended.
C4_Witness ==
    /\ Dispatching /\ mode = ModePlan /\ pc = "send"
    /\ \E k \in 1..Len(assistantMsg[1].ToolCalls) :
           /\ assistantMsg[1].ToolCalls[k].Name \in WriteTools \ deniedTools
           /\ messages[AsstPos + k].Content = PlanDenied

\* C5: when runAgentLoop appends the finished assistant message of a stream
\* whose adapter numbers tool calls by content-block position (Bedrock), the
\* message holds exactly one tool call per index that received an event, in
\* ascending index order.
C5_EveryIndexCollected ==
    [][(pc = "collect" /\ ~inCompact /\ pc' # "collect" /\ provider = "bedrock") =>
          LET calls == messages'[Len(messages')].ToolCalls
              idx == Ascending(DOMAIN toolCalls)
          IN  /\ Len(calls) = Len(idx)
              /\ \A k \in 1..Len(idx) :
                     /\ calls[k].Name = toolCalls[idx[k]].Name
                     /\ calls[k].Args = toolCalls[idx[k]].Args]_vars

\* C6: when the indices that received events are exactly 0..N-1, the appended
\* assistant message holds N tool calls and the k-th is the call accumulated at
\* index k (with its id, or the synthesized id if it has none).
C6_ContiguousIndicesInOrder ==
    [][(/\ pc = "collect" /\ ~inCompact /\ pc' # "collect"
        /\ DOMAIN toolCalls = 0..(Cardinality(DOMAIN toolCalls) - 1)) =>
          LET calls == messages'[Len(messages')].ToolCalls
              N == Cardinality(DOMAIN toolCalls)
          IN  /\ Len(calls) = N
              /\ assistantMsg' = <<messages'[Len(messages')]>>
              /\ \A k \in 0..(N - 1) :
                     /\ calls[k + 1].Name = toolCalls[k].Name
                     /\ calls[k + 1].Args = toolCalls[k].Args
                     /\ calls[k + 1].ID =
                            IF toolCalls[k].ID = "" THEN SynthID(k) ELSE toolCalls[k].ID]_vars

\* Index 1 arrived before index 0 and the message holds both calls.
C6_Witness ==
    /\ pc = "exec" /\ toolIdx = 1 /\ execSeen = <<>>
    /\ arrival = <<1, 0>>
    /\ Len(assistantMsg[1].ToolCalls) = 2
    /\ messages[Len(messages)] = assistantMsg[1]


\* The position of the nearest assistant message before position i, or 0.
NearestAssistant(i) ==
    LET S == {j \in 1..(i - 1) : messages[j].Role = "assistant"}
    IN  IF S = {} THEN 0 ELSE CHOOSE j \in S : \A k \in S : k <= j

\* C7: every tool-role message carries the id of a tool call of the nearest
\* assistant message before it, and only tool-role messages lie between the two.
C7_ToolResultsReferenceCalls ==
    \A i \in 1..Len(messages) :
        messages[i].Role = "tool" =>
            LET a == NearestAssistant(i) IN
            /\ a > 0
            /\ \E k \in 1..Len(messages[a].ToolCalls) :
                   messages[a].ToolCalls[k].ID = messages[i].ToolCallID
            /\ \A j \in (a + 1)..(i - 1) : messages[j].Role = "tool"

\* Two tool results follow one assistant message, and a later turn has begun.
C7_Witness ==
    \E i \in 1..Len(messages) :
        /\ messages[i].Role = "tool"
        /\ NearestAssistant(i) = i - 2
        /\ Len(messages) > i

\* C8: the conversation never holds an assistant message with empty text and
\* no tool call.
C8_NoEmptyAssistantMessage ==
    \A i \in 1..Len(messages) :
        messages[i].Role = "assistant" =>
            (messages[i].Content # "" \/ Len(messages[i].ToolCalls) > 0)

\* C9: the calls of assistantMsg are executed in list order, each Execute
\* starts when exactly the results of the calls before it have been appended,
\* and after the loop the message is followed by its N results, in order.
C9_SequentialDispatch ==
    Dispatching =>
        LET calls == assistantMsg[1].ToolCalls
            N == Len(calls)
        IN  /\ toolIdx \in 1..N
            /\ AsstPos >= 1 /\ messages[AsstPos] = assistantMsg[1]
            /\ Len(execSeen) = (IF pc = "exec" THEN toolIdx - 1 ELSE toolIdx)
            /\ \A j \in 1..Len(execSeen) : execSeen[j] = AsstPos + j - 1
            /\ \A j \in 1..Appended :
                   /\ messages[AsstPos + j].Role = "tool"
                   /\ messages[AsstPos + j].ToolCallID = calls[j].ID
            /\ pc = "send" => (Appended = N /\ Len(messages) = AsstPos + N)

\* A message with two tool calls has been dispatched completely.
C9_Witness ==
    /\ Dispatching /\ pc = "send"
    /\ Len(assistantMsg[1].ToolCalls) = 2
    /\ Len(execSeen) = 2

\* C10: once the assistant message is appended, the agent loop is on its way
\* to the next provider call (dispatching, or at the call with every result
\* appended) if and only if the message holds a tool call; otherwise it has
\* returned to its caller.
C10_LoopContinuesIffToolCalls ==
    assistantMsg # <<>> =>
        IF Len(assistantMsg[1].ToolCalls) > 0
        THEN /\ pc \in {"exec", "append", "send"}
             /\ pc = "send" =>
                    /\ Appended = Len(assistantMsg[1].ToolCalls)
                    /\ \A j \in 1..Appended : messages[AsstPos + j].Role = "tool"
                    /\ messages[AsstPos] = assistantMsg[1]
        ELSE pc \in {"input", "exit"}

\* The loop stands at its next provider call after a dispatch, with one stream
\* consumed and no user input since.
C10_Witness ==
    /\ assistantMsg # <<>> /\ Len(assistantMsg[1].ToolCalls) > 0
    /\ pc = "send" /\ nCalls = 1
    /\ messages[Len(messages)].Role = "tool"

\* C11: a tool handler's error becomes the text of the tool-result message
\* of its call, the remaining calls of the message are dispatched, and the loop
\* goes on to the next provider call: while a call of the current message has
\* returned an error, the loop is in the tool loop or at the next SendStream
\* with every result appended.
C11_HandlerErrorContinues ==
    handlerErr # {} =>
        /\ assistantMsg # <<>>
        /\ pc \in {"exec", "append", "send"}
        /\ \A k \in handlerErr :
               /\ k \in 1..Len(assistantMsg[1].ToolCalls)
               /\ (pc = "append" /\ k = toolIdx) => result = "error: failed"
               /\ k <= Appended =>
                      messages[AsstPos + k] =
                          Message("tool", "error: failed", <<>>, assistantMsg[1].ToolCalls[k].ID)
        /\ pc = "send" =>
               /\ Appended = Len(assistantMsg[1].ToolCalls)
               /\ Len(execSeen) = Len(assistantMsg[1].ToolCalls)

\* The handler of the first of two calls returned an error, the second call
\* was dispatched too, and the loop stands at the next provider call.
C11_Witness ==
    /\ handlerErr = {1} /\ pc = "send"
    /\ Len(assistantMsg[1].ToolCalls) = 2
    /\ handlerRan = {1, 2}
    /\ messages[Len(messages) - 1].Content = "error: failed"

\* C12: once the context of a turn's stream is cancelled, consumeStream
\* appends no further text to the assistant message of that turn.
C12_NoTextAfterCancel ==
    [][(pc = "consume" /\ ~inCompact /\ ctxCancelled) => content' = content]_vars

\* C13: in the assistant message runAgentLoop appends, every tool call whose
\* accumulated id was empty carries the non-empty id "call_<index>" of its own
\* index, and two such calls never carry the same id.
C13_SynthesizedIDsUnique ==
    [][(pc = "collect" /\ ~inCompact /\ pc' # "collect") =>
          LET calls == messages'[Len(messages')].ToolCalls
              idx == Ascending({i \in DOMAIN toolCalls : i < Cardinality(DOMAIN toolCalls)})
              missing == {k \in 1..Len(idx) : toolCalls[idx[k]].ID = ""}
          IN  /\ Len(calls) = Len(idx)
              /\ \A k \in missing :
                     /\ calls[k].ID # ""
                     /\ calls[k].ID = "call_" \o ToString(idx[k])
              /\ \A k1, k2 \in missing : k1 # k2 => calls[k1].ID # calls[k2].ID]_vars

\* A message whose two tool calls both arrived without an id has been appended.
C13_Witness ==
    /\ pc = "exec" /\ toolIdx = 1 /\ execSeen = <<>>
    /\ Len(assistantMsg[1].ToolCalls) = 2
    /\ DOMAIN toolCalls = {0, 1} /\ toolCalls[0].ID = "" /\ toolCalls[1].ID = ""
    /\ assistantMsg[1].ToolCalls[1].ID = "call_0"
    /\ assistantMsg[1].ToolCalls[2].ID = "call_1"

\* C14: whenever no stream is being consumed, the cumulative usage total of
\* the session equals the sum of inputTokens + outputTokens over every usage
\* report received in the session's provider calls.
C14_UsageTotalIsSum ==
    pc \notin {"consume", "collect"} =>
        totalUsage.InputTokens + totalUsage.OutputTokens = usageReceived

\* The last n elements of sequence q.
LastN(q, n) == SubSeq(q, Len(q) - n + 1, Len(q))

\* C15: a ReadUnread returns the bytes written since the previous ReadUnread
\* (or since the buffer was created), cut to the last RingSize of them, in
\* write order, when no ReadAll ran in between: all of them if fewer than the
\* capacity were written, the last RingSize otherwise, and the empty string if
\* nothing was written.
C15_ReadUnreadReturnsLastBytes ==
    (rbh.op = "unread" /\ ~rbh.allBefore) =>
        rbh.out = String(LastN(rbh.drained,
                               IF Len(rbh.drained) > RingSize THEN RingSize
                               ELSE Len(rbh.drained)))

\* After a first drain, more bytes than the capacity were written and the
\* ReadUnread that followed returned the last RingSize of them.
C15_Witness ==
    /\ rbh.op = "unread" /\ ~rbh.allBefore
    /\ Len(rbh.drained) = RingSize + 1
    /\ rbh.ops >= 5
    /\ rbh.out = String(SubSeq(rbh.drained, 2, RingSize + 1))

\* C16: ReadAll changes no state of the ring buffer.
C16_ReadAllNonDestructive ==
    [][(rbh'.op = "all" /\ rbh'.ops = rbh.ops + 1) => rb' = rb]_vars

\* C17: a toolKillProcess call that found its process running sends SIGTERM
\* first and polls the completion flag at most KillPolls times; it sends
\* SIGKILL only after KillPolls polls that all saw the flag unset; it returns
\* "terminated" if and only if some poll saw the flag set, and sends SIGKILL
\* and returns "killed" if and only if all KillPolls polls saw it unset.
C17_TerminateEscalation ==
    kp.sigs # <<>> =>
        /\ kp.sigs[1] = SIGTERM
        /\ SIGTERM \in procs[kp.id].signals
        /\ kp.i <= KillPolls
        /\ Len(kp.sigs) > 1 =>
               /\ kp.sigs = <<SIGTERM, SIGKILL>>
               /\ kp.i = KillPolls /\ ~kp.sawSet /\ kp.pc = "idle"
        /\ (kp.pc = "idle" /\ ret.op = "kill_process" /\ ret.ran) =>
               /\ ret.id = kp.id
               /\ ret.text \in {"terminated process " \o kp.id,
                                "killed process " \o kp.id \o " (SIGKILL)"}
               /\ (ret.text = "terminated process " \o kp.id) <=> kp.sawSet
               /\ (ret.text = "killed process " \o kp.id \o " (SIGKILL)")
                      <=> (kp.i = KillPolls /\ ~kp.sawSet)
               /\ (ret.text = "killed process " \o kp.id \o " (SIGKILL)")
                      <=> (kp.sigs = <<SIGTERM, SIGKILL>>)

\* A process ignored SIGTERM for all the polls: SIGKILL was sent and "killed"
\* returned while the flag is still unset.
C17_Witness ==
    /\ kp.pc = "idle" /\ kp.i = KillPolls /\ kp.sigs = <<SIGTERM, SIGKILL>>
    /\ ret = Returned("kill_process", kp.id, Killed(kp.id))
    /\ ~procs[kp.id].Done
    /\ procs[kp.id].signals = {SIGTERM, SIGKILL}

\* C18: toolWriteStdin called with an id that is not in the table returns
\* the not-found error; called on an entry whose completion flag is set it
\* returns the already-exited error; in both cases nothing is written (the
\* table is unchanged), the two errors differ, and neither is the success text.
C18_WriteStdinRejections ==
    [][(nOps' = nOps + 1 /\ ret'.op = "write_stdin" /\ ret'.ran) =>
          LET id == ret'.id
              rejected == IF id \in DOMAIN procs THEN procs[id].Done ELSE TRUE
          IN  /\ id \notin DOMAIN procs =>
                     ret'.text = "error: no process with id " \o id
              /\ (id \in DOMAIN procs /\ rejected) =>
                     ret'.text = "error: process has already exited"
              /\ rejected =>
                     /\ procs' = procs
                     /\ \A n \in 0..3 : ret'.text # StdinAck(n, id)
              /\ "error: process has already exited" # "error: no process with id " \o id]_vars

\* toolWriteStdin was called on a process that had exited and returned the
\* already-exited error; nothing was ever written to the process.
C18_Witness ==
    /\ ret.op = "write_stdin" /\ ret.text = AlreadyExited
    /\ ret.id \in DOMAIN procs
    /\ procs[ret.id].Done /\ procs[ret.id].Stdin = <<>>

\* C19: the completion flag and the exit result of an entry change in one
\* step only, which is a step of no handler, happens once, after the OS process
\* has exited, and sets the flag and stores what cmd.Wait returned; once set,
\* the flag stays set and the exit result stays as it is.
C19_MonitorSoleWriter ==
    [][\A id \in DOMAIN procs :
          /\ id \in DOMAIN procs'
          /\ procs[id].Done => (procs'[id].Done /\ procs'[id].ExitErr = procs[id].ExitErr)
          /\ (~procs[id].Done /\ (procs'[id].Done \/ procs'[id].ExitErr # procs[id].ExitErr)) =>
                 /\ procs'[id].Done /\ procs'[id].ExitErr = procs[id].waitErr
                 /\ procs[id].exited
                 /\ procs[id].writes = 0 /\ procs'[id].writes = 1
                 /\ nOps' = nOps /\ kp' = kp /\ ret' = ret]_vars

\* A process that was sent SIGTERM exited with an error, its monitor recorded
\* it, and handlers ran on the entry afterwards.
C19_Witness ==
    \E id \in DOMAIN procs :
        /\ procs[id].Done /\ procs[id].ExitErr = "exit status 1"
        /\ procs[id].writes = 1
        /\ SIGTERM \in procs[id].signals
        /\ nOps = MaxSupOps /\ ret.op = "read_output"

\* An entry of the process table without the history of cancellations.
Managed(mp) == [mp EXCEPT !.sawCancel = FALSE]

\* C20: a step that cancels the context of a turn's stream, or with which a
\* turn ends (the loop returns to its caller), changes no entry of the process
\* table and removes none.
C20_ProcessesSurviveTurn ==
    [][((~ctxCancelled /\ ctxCancelled')
        \/ (pc \notin {"input", "exit"} /\ pc' \in {"input", "exit"})) =>
          /\ DOMAIN procs' = DOMAIN procs
          /\ \A id \in DOMAIN procs : Managed(procs'[id]) = Managed(procs[id])]_vars

\* A process was running when a turn was cancelled, the turn has ended, and
\* the process is still running and in the table.
C20_Witness ==
    /\ pc = "input" /\ nCalls >= 1
    /\ \E id \in DOMAIN procs :
           procs[id].sawCancel /\ ~procs[id].exited /\ ~procs[id].Done

C22_NothingAfterDoneOrError == [][sh.ended => Len(ch') <= Len(ch)]_vars

C24_CancelledPumpCloses ==
    /\ [](pc # "consume" => chClosed)
    /\ (ctxCancelled /\ ~chClosed) ~> chClosed

\* The context was cancelled during a stream and the pump has closed the
\* channel, which consumeStream still finds full.
C24_Witness ==
    /\ ctxCancelled /\ chClosed /\ pc = "consume" /\ Len(ch) = ChanCap
    /\ sh.ended

\* The tools whose handlers spawn, feed or signal a process.
ProcessTools == {"bash", "start_process", "write_stdin", "kill_process"}

\* C25: while the mode is Plan, no step adds a managed process, writes to the
\* stdin of one or signals one, and a call of bash, start_process, write_stdin
\* or kill_process returns the plan-denial text without its handler being run.
C25_PlanModeRunsNoProcessHandler ==
    [][mode = ModePlan =>
          /\ DOMAIN procs' = DOMAIN procs
          /\ \A id \in DOMAIN procs :
                 /\ procs'[id].Stdin = procs[id].Stdin
                 /\ procs'[id].signals = procs[id].signals
          /\ kp'.pc = "idle"
          /\ (nOps' # nOps /\ ret'.op \in ProcessTools) =>
                 (~ret'.ran /\ ret'.text = PlanDenied)]_vars

\* A process was started in Action mode; back in Plan mode, a kill_process
\* call was refused and the process, still running, got no signal.
C25_Witness ==
    /\ mode = ModePlan /\ ret = Blocked("kill_process", PlanDenied)
    /\ "p1" \in DOMAIN procs /\ ~procs["p1"].exited /\ procs["p1"].signals = {}

\* The configuration denies tool n: it is in the deny list, or an allow list
\* is set and n is not in it.
ConfigDenies(n) ==
    \/ \E i \in 1..Len(toolsCfg.Deny) : toolsCfg.Deny[i] = n
    \/ /\ Len(toolsCfg.Allow) > 0
       /\ \A i \in 1..Len(toolsCfg.Allow) : toolsCfg.Allow[i] # n

\* C26: a registered tool that the configuration denies is not in the catalog
\* runAgentLoop passes to SendStream (a.tools.Definitions()), and in either
\* mode a call that names it never runs its handler: the call's result is the
\* config-denial text, appended as its tool-result message, and the loop goes
\* on with the remaining calls and the next provider call.
C26_DeniedToolNeverOfferedNorRun ==
    \A n \in RegisteredTools :
        ConfigDenies(n) =>
            /\ \A i \in 1..Len(Definitions(deniedTools)) : Definitions(deniedTools)[i] # n
            /\ Dispatching =>
                   \A k \in 1..Len(assistantMsg[1].ToolCalls) :
                       LET tc == assistantMsg[1].ToolCalls[k] IN
                       tc.Name = n =>
                           /\ k \notin handlerRan
                           /\ (pc = "append" /\ k = toolIdx) => result = ConfigDenied
                           /\ k <= Appended =>
                                  messages[AsstPos + k] =
                                      Message("tool", ConfigDenied, <<>>, tc.ID)

\* In Action mode a call of write_file, which the allow list leaves out, got
\* the config-denial text and the loop stands at its next provider call.
C26_Witness ==
    /\ toolsCfg = ToolsConfig(<<>>, <<"read_file">>) /\ mode = ModeAction
    /\ Dispatching /\ pc = "send"
    /\ assistantMsg[1].ToolCalls[1].Name = "write_file"
    /\ messages[Len(messages)].Content = ConfigDenied
    /\ Len(Definitions(deniedTools)) = 1

\* C27: a step that begins a new session (/new replaces a session that holds
\* messages by an empty one) leaves the agent in Plan mode.
C27_NewSessionStartsInPlan ==
    [][(messages # <<>> /\ messages' = <<>>) => mode' = ModePlan]_vars

\* C28: in the final configuration the environment ranks above the .agent
\* file: when OLLAMA_HOST is set, the url of the ollama provider is its value,
\* whatever the .agent file says.
C28_EnvironmentOverridesAgentFile ==
    (cs.pc = "done" /\ cs.in.env.OLLAMA_HOST # "") =>
        cs.cfg.Providers["ollama"].URL = cs.in.env.OLLAMA_HOST

\* C29: the agent never stands at its prompt, asking for input, while the
\* last message of the conversation is a user message and no provider call
\* has been made for it.
C29_NoPromptOverUnsentUserMessage ==
    (pc = "input" /\ Len(messages) > 0 /\ messages[Len(messages)].Role = "user") =>
        ProviderCalls > 0

\* C30: the mode is written only while RunLoop reads a line at its prompt
\* (no turn is running and none is pending): from the start of a run of the
\* agent loop to its return the mode stays the same, so every tool call of the
\* run is gated against one mode.
C30_ModeFixedDuringTurn ==
    [][mode' # mode =>
          /\ pc = "input" /\ pc' = "input"
          /\ ~LastIsTool
          /\ UNCHANGED <<messages, assistantMsg, toolIdx>>]_vars

\* The mode was switched to Action at the prompt, and the run that followed
\* has executed both write_file calls of one message.
C30_Witness ==
    /\ entry = "RunLoop" /\ mode = ModeAction
    /\ Dispatching /\ pc = "send"
    /\ Len(assistantMsg[1].ToolCalls) = 2 /\ handlerRan = {1, 2}
    /\ \A k \in 1..2 : assistantMsg[1].ToolCalls[k].Name = "write_file"

\* Sequence p is an initial part of sequence q.
IsPrefix(p, q) == Len(p) <= Len(q) /\ SubSeq(q, 1, Len(p)) = p

\* C31: during a run of the agent loop (from its first SendStream to its
\* return, whether the stream was cancelled or ended with an error) every step
\* leaves the messages of the conversation where they are and adds at most one
\* message at the end.
C31_AppendOnlyDuringRun ==
    [][(pc \notin {"input", "exit"} /\ ~inCompact) =>
          /\ IsPrefix(messages, messages')
          /\ Len(messages') <= Len(messages) + 1]_vars

\* The second stream of a run ended with an error after the tool result of
\* the first was appended.
C31_Witness ==
    /\ pc = "collect" /\ ~inCompact /\ errInRun /\ nCalls = 2
    /\ Len(messages) >= 3 /\ messages[Len(messages)].Role = "tool"

\* C39: /compact changes the conversation only by replacing it with the
\* summary of a stream from which a Done chunk was consumed: a provider call
\* that fails at construction leaves the conversation as it was, and so does
\* a summary stream that ends with an Err chunk or without Done.
C39_CompactOnlyOnDone ==
    [][/\ (inCompact /\ messages' # messages) => sawDone
       /\ (AtPrompt /\ nFails' = nFails + 1) => messages' = messages]_vars

\* C36: once toolKillProcess has returned "terminated" or "killed", the
\* completion flag of its process is set.
C36_TerminateReturnsAfterFlag ==
    (/\ kp.pc = "idle" /\ kp.sigs # <<>>
     /\ ret.op = "kill_process" /\ ret.ran
     /\ ret.text \in {Terminated(kp.id), Killed(kp.id)}) =>
        procs[kp.id].Done

\* C40: a toolKillProcess call that finds the completion flag of its process
\* set returns "already exited" in that step: it sends no signal (no entry of
\* the table changes), makes no poll and leaves no call running.
C40_NoSignalToExitedProcess ==
    [][(/\ nOps' = nOps + 1 /\ ret'.op = "kill_process" /\ ret'.ran
        /\ ret'.id \in DOMAIN procs /\ procs[ret'.id].Done) =>
          /\ ret'.text = "process " \o ret'.id \o " already exited"
          /\ procs' = procs
          /\ kp'.pc = "idle" /\ kp'.sigs = <<>> /\ kp'.i = 0]_vars

\* toolKillProcess was called on a process that had exited by itself: it
\* returned "already exited" and the process was never sent a signal.
C40_Witness ==
    /\ ret = Returned("kill_process", "p1", KillAlreadyExited("p1"))
    /\ kp.pc = "idle" /\ kp.sigs = <<>> /\ kp.i = 0
    /\ "p1" \in DOMAIN procs /\ procs["p1"].Done /\ procs["p1"].signals = {}

\* C37: while only Write and ReadUnread have run on the buffer and at most
\* RingSize bytes were written between two consecutive ReadUnread calls (and
\* before the first), the results of all ReadUnread calls, one after the
\* other, are the bytes written up to the last ReadUnread, in write order.
C37_DrainsLoseNothing ==
    (rbh.op = "unread" /\ rbh.fits) => rbh.got = String(rbh.all)

\* Several drains returned more bytes than the buffer holds, none of them
\* more than the capacity: the writes wrapped around the end of the buffer.
C37_Witness ==
    /\ rbh.op = "unread" /\ rbh.fits
    /\ Len(rbh.all) > RingSize
    /\ Len(rbh.drained) >= 1 /\ Len(rbh.drained) < Len(rbh.all)
    /\ rbh.got = String(rbh.all)

\* C38: in the contents the Gemini adapter builds from the conversation at a
\* provider call, the function response of every tool-role message carries
\* the name of a tool call with the message's id in the assistant message
\* directly before it.
C38_GeminiResultNamesItsCall ==
    (provider = "gemini" /\ pc = "send") =>
        \A i \in 1..Len(messages) :
            messages[i].Role = "tool" =>
                LET a == NearestAssistant(i)
                    sent == convertToGeminiContents(messages)[i].FunctionResponse[1]
                IN  \E k \in 1..Len(messages[a].ToolCalls) :
                        /\ messages[a].ToolCalls[k].ID = messages[i].ToolCallID
                        /\ messages[a].ToolCalls[k].Name = sent.Name

\* The texts of a sequence of chunks, one after the other.
RECURSIVE TextOf(_)
TextOf(chunks) ==
    IF chunks = <<>> THEN "" ELSE Head(chunks).Text \o TextOf(Tail(chunks))

\* The argument fragments that a sequence of chunks carries for index i, one
\* after the other, and the indices for which it carries a delta.
RECURSIVE ArgsOf(_, _)
ArgsOf(chunks, i) ==
    IF chunks = <<>> THEN ""
    ELSE (IF Head(chunks).ToolCallDelta # <<>> /\ Head(chunks).ToolCallDelta[1].Index = i
          THEN Head(chunks).ToolCallDelta[1].Args ELSE "")
         \o ArgsOf(Tail(chunks), i)
IndicesOf(chunks) ==
    {chunks[k].ToolCallDelta[1].Index :
        k \in {j \in 1..Len(chunks) : chunks[j].ToolCallDelta # <<>>}}

HeldBy(t) ==
    {m \in {"processes"} : locks.processes = t}
        \cup {m \in {"mu", "Stdout", "Stderr"} : \E id \in ProcIDs : locks[m][id] = t}

\* C33: a goroutine that is in a blocking step holds no lock: the handler
\* while it writes to a process's stdin, sleeps between two polls or sends a
\* signal, a monitor while it waits for its process in cmd.Wait(), and a
\* copying goroutine while it reads from its pipe.
C33_NoLockAcrossBlockingStep ==
    /\ hd.pc \in {"io.WriteString", "sleep", SIGTERM, SIGKILL} => HeldBy(Handler) = {}
    /\ \A id \in DOMAIN bg :
           /\ bg[id].monitor = "cmd.Wait" => HeldBy(MonitorOf(id)) = {}
           /\ \A s \in {"Stdout", "Stderr"} :
                  bg[id][s].pc = "read" => HeldBy(CopierOf(id, s)) = {}

\* toolWriteStdin is in its write to the pipe while the monitor of the same
\* process holds mp.mu.
C33_Witness ==
    /\ hd.pc = "io.WriteString" /\ hd.id = "p1"
    /\ locks.mu["p1"] = MonitorOf("p1")

\* C34: a goroutine asks for processes only while it holds no lock, and only
\* a handler ever does; and every goroutine that waits for a lock gets it: a
\* handler for processes, for mp.mu (toolListProcesses while it holds
\* processes) and for a ring buffer, a monitor for mp.mu, a copying goroutine
\* for its ring buffer.
C34_LocksAreGranted ==
    /\ [](hd.pc = "processes.Lock" => HeldBy(Handler) = {})
    /\ [](locks.processes \in {NoTask, Handler})
    /\ (hd.pc = "processes.Lock") ~> (hd.pc = "in processes")
    /\ (hd.pc = "mu.Lock") ~> (hd.pc = "in mu")
    /\ (hd.pc = "Stdout.Lock") ~> (hd.pc = "in Stdout")
    /\ (hd.pc = "Stderr.Lock") ~> (hd.pc = "in Stderr")
    /\ \A id \in ProcIDs :
           /\ (id \in DOMAIN bg /\ bg[id].monitor = "mu.Lock")
                  ~> (id \in DOMAIN bg /\ bg[id].monitor = "in mu")
           /\ \A s \in {"Stdout", "Stderr"} :
                  (id \in DOMAIN bg /\ bg[id][s].pc = "rb.mu.Lock")
                      ~> (id \in DOMAIN bg /\ bg[id][s].pc = "in rb.mu")

\* toolListProcesses holds processes and waits for the mp.mu of an entry
\* that the monitor of the entry holds.
C34_Witness ==
    /\ hd.op = "list_processes" /\ hd.pc = "mu.Lock" /\ hd.id = "p1"
    /\ locks.processes = Handler /\ locks.mu["p1"] = MonitorOf("p1")

\* C35: a read_output on a process for which an earlier read_output returned
\* the terminal status returns no output bytes.
C35_StatusComesAfterAllOutput ==
    [][(/\ hd.op = "read_output" /\ hd.pc = "in mu" /\ hd'.pc = "idle"
        /\ hd.id \in hd.reported) =>
          (hd.stdout = "" /\ hd.stderr = "")]_vars

====
